---- MODULE Spec2Model ----
(***************************************************************************)
(* Model of the execution status engine (StatusManager) of the SDK and of  *)
(* the interaction settings of BaseStepExecutor.                           *)
(*                                                                         *)
(* JavaScript objects are modelled as cells of a heap: a step object       *)
(* refers to an execution object, an execution object refers to a process  *)
(* array, a process array holds references to process objects.  Sharing of *)
(* a cell by two owners (Object.assign, object spread, Array.filter) is    *)
(* therefore visible in the model exactly as in the program.               *)
(***************************************************************************)
EXTENDS Integers, Sequences, FiniteSets, TLC

\* ------------------------------------------------------------------------
\* Bounds
\* ------------------------------------------------------------------------

\* number of calls made to the StatusManager in one behaviour
MaxOps == 5

\* ------------------------------------------------------------------------
\* Values
\* ------------------------------------------------------------------------

Undefined == "undefined"

\* the statuses a caller passes to updateProcess
Statuses == {"STARTED", "ACTION_REQUIRED", "PENDING", "FAILED", "DONE", "CANCELLED"}

\* the statuses a caller passes to updateExecution
ExecutionStatuses == {"PENDING", "FAILED", "DONE"}

\* the optional status a caller passes to findOrCreateProcess
FindStatuses == {Undefined, "PENDING", "DONE"}

\* the process types a caller names
ProcessTypes == {"CROSS_CHAIN", "RECEIVING_CHAIN"}

\* step objects: r1 and r2 are the objects held in route.steps, d1 is another
\* object with the id of r1 (a copy held by a caller), dx has an id that no
\* step of the route has
StepObjs == {"r1", "r2", "d1", "dx"}

stepId == [r1 |-> "step1", r2 |-> "step2", d1 |-> "step1", dx |-> "stepX"]

\* this.route.steps
routeSteps == <<"r1", "r2">>

\* the step objects a caller may pass to the StatusManager: a behaviour
\* works on one of them
CallerSteps == {"r1", "d1", "dx"}

ExecRefs == 1..Cardinality(StepObjs)

ArrRefs == 1..Cardinality(StepObjs)

ProcRefs == 1..(Cardinality(StepObjs) * Cardinality(ProcessTypes))

\* Receipt arguments of updateExecution: absent, or an object with toAmount
Receipts == {Undefined, "toAmount"}

\* OptionalParameters objects passed to updateProcess: absent, or an object
\* with a transaction hash and a doneAt of the caller
ParamChoices ==
  { [k \in {} |-> Undefined],
    [k \in {"txHash", "doneAt"} |-> IF k = "txHash" THEN "0xhash" ELSE "callerDoneAt"] }

VARIABLES
  held,          \* the step object the caller passes in this behaviour
  stepExec,      \* step object -> its execution property (a reference or NoRef)
  execs,         \* heap of Execution objects
  arrays,        \* heap of process arrays (sequences of process references)
  procs,         \* heap of Process objects
  shouldUpdate,  \* StatusManager.shouldUpdate
  allowUserInteraction, \* BaseStepExecutor.allowUserInteraction
  allowExecution,       \* BaseStepExecutor.allowExecution
  hooks,         \* the hook calls made by the last call, in order
  last,          \* the last call: operation, arguments, error thrown
  nops,          \* number of calls made
  run,           \* EVMStepExecutor: the step's fixed inputs, the invocation of
                 \* executeStep in flight (position, locals) and what it has done
  builder        \* permit message builder: the caller's permit object and the
                 \* last call made on it

vars == <<held, stepExec, execs, arrays, procs, shouldUpdate,
          allowUserInteraction, allowExecution, hooks, last, nops, run,
          builder>>

\* ------------------------------------------------------------------------
\* The heap
\* ------------------------------------------------------------------------

NoError == "none"

\* the absent reference
NoRef == 0

\* Date.now(): the timestamps are opaque to the StatusManager
DateNow == "now"

Range(f) == {f[i] : i \in DOMAIN f}

Lowest(S) == CHOOSE r \in S : \A q \in S : r <= q

\* the heap of the current state, as one value
Heap == [se |-> stepExec, ex |-> execs, ar |-> arrays, pr |-> procs]

\* cells that some step object reaches
LiveExecs(h) == {h.se[s] : s \in StepObjs} \ {NoRef}

LiveArrs(h) == {h.ex[e].process : e \in LiveExecs(h)}

LiveProcs(h) == UNION {Range(h.ar[a]) : a \in LiveArrs(h)}

\* a cell no step object reaches holds no object
FreeExec == [status |-> Undefined, process |-> NoRef, toAmount |-> Undefined]

FreeArr == <<>>

\* an error that is set is the pair of its code and its message
FreeProc == [type |-> Undefined, status |-> Undefined, message |-> <<>>,
             startedAt |-> Undefined, doneAt |-> Undefined, txHash |-> Undefined,
             txLink |-> Undefined, substatus |-> Undefined,
             atomicBatchSupported |-> Undefined, error |-> <<>>]

\* allocation of a new object: the lowest free cell
NewExec(h) == Lowest(ExecRefs \ LiveExecs(h))

NewArr(h) == Lowest(ArrRefs \ LiveArrs(h))

NewProc(h) == Lowest(ProcRefs \ LiveProcs(h))

\* garbage collection: unreachable cells are emptied
Collect(h) ==
  [se |-> h.se,
   ex |-> [e \in ExecRefs |-> IF e \in LiveExecs(h) THEN h.ex[e] ELSE FreeExec],
   ar |-> [a \in ArrRefs |-> IF a \in LiveArrs(h) THEN h.ar[a] ELSE FreeArr],
   pr |-> [p \in ProcRefs |-> IF p \in LiveProcs(h) THEN h.pr[p] ELSE FreeProc]]

\* step.execution.process, the array object
ProcessArr(h, step) == h.ex[h.se[step]].process

\* the Process objects of an Execution object, in order, by value
ProcessList(h, e) ==
  [i \in 1..Len(h.ar[h.ex[e].process]) |-> h.pr[h.ar[h.ex[e].process][i]]]

\* an Execution object by value
ExecView(h, e) ==
  [status |-> h.ex[e].status, toAmount |-> h.ex[e].toAmount,
   process |-> ProcessList(h, e)]

\* a step object by value: <<>> stands for a step without execution
StepView(h, step) ==
  [id |-> stepId[step],
   execution |-> IF h.se[step] = NoRef THEN <<>> ELSE <<ExecView(h, h.se[step])>>]

\* the Route as a hook sees it
RouteView(h) == [i \in 1..Len(routeSteps) |-> StepView(h, routeSteps[i])]

\* the result of a call: the heap it leaves, the hook calls it made, the
\* error it threw
Result(h, hs, err) == [h |-> h, hooks |-> hs, threw |-> err]

\* Array.prototype.findIndex over a sequence, the predicate given as the set
\* of the elements that satisfy it: 0-based, -1 when absent
FindIndex(seq, matching) ==
  IF \E i \in 1..Len(seq) : seq[i] \in matching
  THEN Lowest({i \in 1..Len(seq) : seq[i] \in matching}) - 1
  ELSE -1

\* Array.prototype.filter over a sequence, the predicate given as the set of
\* the elements that satisfy it: a new array
Filter(seq, matching) == SelectSeq(seq, LAMBDA x : x \in matching)

\* Array.prototype.splice(start, deleteCount), the array it leaves
Splice(seq, start, deleteCount) ==
  LET len == Len(seq)
      from == IF start < 0
              THEN (IF len + start < 0 THEN 0 ELSE len + start)
              ELSE (IF start > len THEN len ELSE start)
      cnt == IF deleteCount < 0 THEN 0
             ELSE IF deleteCount > len - from THEN len - from
             ELSE deleteCount
  IN [i \in 1..(len - cnt) |-> IF i <= from THEN seq[i] ELSE seq[i + cnt]]

\* ------------------------------------------------------------------------
\* StatusManager
\* ------------------------------------------------------------------------

\* emptyExecution of @lifi/types, cloned: a new Execution with a new array
emptyExecution(arr) == [status |-> "NOT_STARTED", process |-> arr, toAmount |-> Undefined]

\* getProcessMessage(type, status): a message derived from type and status
getProcessMessage(type, status) == <<type, status>>

\* updateStepInRoute assigning to the first step of the route, whatever its id
updateStepInRoute_AssignsFirst(h, step, enabled) ==
  IF ~enabled
  THEN Result(h, <<>>, NoError)
  ELSE LET target == routeSteps[1]
           h2 == [h EXCEPT !.se[target] = h.se[step]]
       IN Result(h2,
                 << [hook |-> "updateRouteHook", route |-> RouteView(h2)],
                    [hook |-> "internalUpdateRouteCallback", route |-> RouteView(h2)] >>,
                 NoError)

\* updateStepInRoute without the test of shouldUpdate
updateStepInRoute_IgnoresFlag(h, step, enabled) ==
  LET stepIndex == FindIndex(routeSteps, {routeStep \in StepObjs : stepId[routeStep] = stepId[step]})
  IN IF stepIndex = -1
     THEN Result(h, <<>>, "Couldn't find a step to update.")
     ELSE LET target == routeSteps[stepIndex + 1]
              h2 == [h EXCEPT !.se[target] = h.se[step]]
          IN Result(h2,
                    << [hook |-> "updateRouteHook", route |-> RouteView(h2)],
                       [hook |-> "internalUpdateRouteCallback", route |-> RouteView(h2)] >>,
                    NoError)

\* updateStepInRoute without the Object.assign onto the step of the route
updateStepInRoute_NoAssign(h, step, enabled) ==
  IF ~enabled
  THEN Result(h, <<>>, NoError)
  ELSE LET stepIndex == FindIndex(routeSteps, {routeStep \in StepObjs : stepId[routeStep] = stepId[step]})
       IN IF stepIndex = -1
          THEN Result(h, <<>>, "Couldn't find a step to update.")
          ELSE Result(h,
                      << [hook |-> "updateRouteHook", route |-> RouteView(h)],
                         [hook |-> "internalUpdateRouteCallback", route |-> RouteView(h)] >>,
                      NoError)

updateStepInRoute(h, step, enabled) ==
  IF ~enabled
  THEN Result(h, <<>>, NoError)
  ELSE LET stepIndex == FindIndex(routeSteps, {routeStep \in StepObjs : stepId[routeStep] = stepId[step]})
       IN IF stepIndex = -1
          THEN Result(h, <<>>, "Couldn't find a step to update.")
          ELSE LET target == routeSteps[stepIndex + 1]
                   \* Object.assign(this.route.steps[stepIndex], step)
                   h2 == [h EXCEPT !.se[target] = h.se[step]]
               IN Result(h2,
                         << [hook |-> "updateRouteHook", route |-> RouteView(h2)],
                            [hook |-> "internalUpdateRouteCallback", route |-> RouteView(h2)] >>,
                         NoError)

\* initExecutionObject that discards the last process of an existing Execution
initExecutionObject_DropsLast(h, step, enabled) ==
  IF h.se[step] = NoRef
  THEN LET e == NewExec(h)
           a == NewArr(h)
       IN updateStepInRoute(
            [h EXCEPT !.se[step] = e,
                      !.ex[e] = [emptyExecution(a) EXCEPT !.status = "PENDING"],
                      !.ar[a] = <<>>],
            step, enabled)
  ELSE LET arr == ProcessArr(h, step)
           h1 == [h EXCEPT !.ar[arr] = Splice(h.ar[arr], -1, 1)]
       IN IF h.ex[h.se[step]].status = "FAILED"
          THEN updateStepInRoute([h1 EXCEPT !.ex[h.se[step]].status = "PENDING"],
                                 step, enabled)
          ELSE Result(h1, <<>>, NoError)

\* initExecutionObject that on resume also resets the FAILED processes
initExecutionObject_ResetsProcesses(h, step, enabled) ==
  IF h.se[step] = NoRef
  THEN LET e == NewExec(h)
           a == NewArr(h)
       IN updateStepInRoute(
            [h EXCEPT !.se[step] = e,
                      !.ex[e] = [emptyExecution(a) EXCEPT !.status = "PENDING"],
                      !.ar[a] = <<>>],
            step, enabled)
  ELSE IF h.ex[h.se[step]].status = "FAILED"
       THEN updateStepInRoute(
              [h EXCEPT !.ex[h.se[step]].status = "PENDING",
                        !.pr = [p \in ProcRefs |->
                                  IF p \in Range(h.ar[ProcessArr(h, step)])
                                     /\ h.pr[p].status = "FAILED"
                                  THEN [h.pr[p] EXCEPT !.status = "PENDING"]
                                  ELSE h.pr[p]]],
              step, enabled)
       ELSE Result(h, <<>>, NoError)

initExecutionObject(h, step, enabled) ==
  LET \* step.execution || structuredClone(emptyExecution)
      currentExecution == IF h.se[step] # NoRef THEN h.se[step] ELSE NewExec(h)
      a == NewArr(h)
      h0 == IF h.se[step] # NoRef THEN h
            ELSE [h EXCEPT !.ex[currentExecution] = emptyExecution(a), !.ar[a] = <<>>]
      \* if (!step.execution)
      r1 == IF h.se[step] = NoRef
            THEN updateStepInRoute(
                   [h0 EXCEPT !.se[step] = currentExecution,
                              !.ex[currentExecution].status = "PENDING"],
                   step, enabled)
            ELSE Result(h0, <<>>, NoError)
      \* if (currentExecution.status === 'FAILED')
      r2 == IF r1.h.ex[currentExecution].status = "FAILED"
            THEN updateStepInRoute(
                   [r1.h EXCEPT !.ex[currentExecution].status = "PENDING"],
                   step, enabled)
            ELSE Result(r1.h, <<>>, NoError)
  IN IF r1.threw # NoError THEN r1
     ELSE Result(r2.h, r1.hooks \o r2.hooks, r2.threw)

updateExecution(h, step, status, receipt, enabled) ==
  IF h.se[step] = NoRef
  THEN Result(h, <<>>, "Can't update empty execution.")
  ELSE LET h1 == [h EXCEPT !.ex[h.se[step]].status = status]
           \* step.execution = { ...step.execution, ...receipt }: a new object
           e == NewExec(h1)
           h2 == IF receipt # Undefined
                 THEN [h1 EXCEPT !.ex[e] = [h1.ex[h1.se[step]] EXCEPT !.toAmount = receipt],
                                 !.se[step] = e]
                 ELSE h1
       IN updateStepInRoute(h2, step, enabled)

\* findOrCreateProcess that propagates also when it has changed nothing
findOrCreateProcess_AlwaysPropagates(h, step, type, status, now, enabled) ==
  IF h.se[step] = NoRef
  THEN Result(h, <<>>, "Execution hasn't been initialized.")
  ELSE LET arr == ProcessArr(h, step)
           idx == FindIndex(h.ar[arr], {p \in ProcRefs : h.pr[p].type = type})
       IN IF idx # -1
          THEN LET process == h.ar[arr][idx + 1]
               IN IF status # Undefined /\ h.pr[process].status # status
                  THEN updateStepInRoute([h EXCEPT !.pr[process].status = status],
                                         step, enabled)
                  ELSE updateStepInRoute(h, step, enabled)
          ELSE LET newProcess == NewProc(h)
                   st == IF status # Undefined THEN status ELSE "STARTED"
                   h1 == [h EXCEPT
                            !.pr[newProcess] =
                               [FreeProc EXCEPT !.type = type,
                                                !.startedAt = now,
                                                !.message = getProcessMessage(type, st),
                                                !.status = st],
                            !.ar[arr] = Append(h.ar[arr], newProcess)]
               IN updateStepInRoute(h1, step, enabled)

\* findOrCreateProcess without the lookup of an existing process
findOrCreateProcess_NoLookup(h, step, type, status, now, enabled) ==
  IF h.se[step] = NoRef
  THEN Result(h, <<>>, "Execution hasn't been initialized.")
  ELSE LET arr == ProcessArr(h, step)
           newProcess == NewProc(h)
           st == IF status # Undefined THEN status ELSE "STARTED"
           h1 == [h EXCEPT
                    !.pr[newProcess] =
                       [FreeProc EXCEPT !.type = type,
                                        !.startedAt = now,
                                        !.message = getProcessMessage(type, st),
                                        !.status = st],
                    !.ar[arr] = Append(h.ar[arr], newProcess)]
       IN updateStepInRoute(h1, step, enabled)

findOrCreateProcess(h, step, type, status, now, enabled) ==
  IF h.se[step] = NoRef
  THEN Result(h, <<>>, "Execution hasn't been initialized.")
  ELSE LET arr == ProcessArr(h, step)
           idx == FindIndex(h.ar[arr], {p \in ProcRefs : h.pr[p].type = type})
       IN IF idx # -1
          THEN LET process == h.ar[arr][idx + 1]
               IN IF status # Undefined /\ h.pr[process].status # status
                  THEN updateStepInRoute([h EXCEPT !.pr[process].status = status],
                                         step, enabled)
                  ELSE Result(h, <<>>, NoError)
          ELSE LET newProcess == NewProc(h)
                   st == IF status # Undefined THEN status ELSE "STARTED"
                   h1 == [h EXCEPT
                            !.pr[newProcess] =
                               [FreeProc EXCEPT !.type = type,
                                                !.startedAt = now,
                                                !.message = getProcessMessage(type, st),
                                                !.status = st],
                            !.ar[arr] = Append(h.ar[arr], newProcess)]
               IN updateStepInRoute(h1, step, enabled)

\* the switch statement with DONE also setting the Execution status
StatusDefaults_DoneOnExecution(h, step, process, status, now) ==
  CASE status = "CANCELLED" -> [h EXCEPT !.pr[process].doneAt = now]
    [] status = "FAILED" -> [h EXCEPT !.pr[process].doneAt = now,
                                      !.ex[h.se[step]].status = "FAILED"]
    [] status = "DONE" -> [h EXCEPT !.pr[process].doneAt = now,
                                    !.ex[h.se[step]].status = "DONE"]
    [] status = "PENDING" -> [h EXCEPT !.ex[h.se[step]].status = "PENDING"]
    [] status = "ACTION_REQUIRED" -> [h EXCEPT !.ex[h.se[step]].status = "ACTION_REQUIRED"]
    [] OTHER -> h

\* the fields that the switch statement sets
StatusDefaults(h, step, process, status, now) ==
  CASE status = "CANCELLED" -> [h EXCEPT !.pr[process].doneAt = now]
    [] status = "FAILED" -> [h EXCEPT !.pr[process].doneAt = now,
                                      !.ex[h.se[step]].status = "FAILED"]
    [] status = "DONE" -> [h EXCEPT !.pr[process].doneAt = now]
    [] status = "PENDING" -> [h EXCEPT !.ex[h.se[step]].status = "PENDING"]
    [] status = "ACTION_REQUIRED" -> [h EXCEPT !.ex[h.se[step]].status = "ACTION_REQUIRED"]
    [] OTHER -> h

\* for (const [key, value] of Object.entries(params)) currentProcess[key] = value
AssignParams(process, params) ==
  [f \in DOMAIN process |-> IF f \in DOMAIN params THEN params[f] ELSE process[f]]

\* the sort with the two groups in the other order
SortDoneFirst_DoneLast(h, seq) ==
  Filter(seq, {p \in ProcRefs : h.pr[p].status # "DONE"})
    \o Filter(seq, {p \in ProcRefs : h.pr[p].status = "DONE"})

\* [...process.filter(DONE), ...process.filter(not DONE)]
SortDoneFirst(h, seq) ==
  Filter(seq, {p \in ProcRefs : h.pr[p].status = "DONE"})
    \o Filter(seq, {p \in ProcRefs : h.pr[p].status # "DONE"})

\* updateProcess reporting a missing process only after propagating the step
updateProcess_PropagatesBeforeLookup(h, step, type, status, params, now, enabled) ==
  IF h.se[step] = NoRef
  THEN Result(h, <<>>, "Can't update an empty step execution.")
  ELSE LET arr == ProcessArr(h, step)
           idx == FindIndex(h.ar[arr], {p \in ProcRefs : h.pr[p].type = type})
       IN IF idx = -1
          THEN LET r == updateStepInRoute(h, step, enabled)
               IN Result(r.h, r.hooks, "Can't find a process for the given type.")
          ELSE LET currentProcess == h.ar[arr][idx + 1]
                   h1 == StatusDefaults(h, step, currentProcess, status, now)
                   h2 == [h1 EXCEPT !.pr[currentProcess].status = status,
                                    !.pr[currentProcess].message = getProcessMessage(type, status)]
                   h3 == [h2 EXCEPT !.pr[currentProcess] = AssignParams(@, params)]
                   sorted == NewArr(h3)
                   h4 == [h3 EXCEPT !.ar[sorted] = SortDoneFirst(h3, h3.ar[arr]),
                                    !.ex[h3.se[step]].process = sorted]
               IN updateStepInRoute(h4, step, enabled)

\* updateProcess looking up the first process of another type
updateProcess_OtherType(h, step, type, status, params, now, enabled) ==
  IF h.se[step] = NoRef
  THEN Result(h, <<>>, "Can't update an empty step execution.")
  ELSE LET arr == ProcessArr(h, step)
           idx == FindIndex(h.ar[arr], {p \in ProcRefs : h.pr[p].type # type})
       IN IF idx = -1
          THEN Result(h, <<>>, "Can't find a process for the given type.")
          ELSE LET currentProcess == h.ar[arr][idx + 1]
                   h1 == StatusDefaults(h, step, currentProcess, status, now)
                   h2 == [h1 EXCEPT !.pr[currentProcess].status = status,
                                    !.pr[currentProcess].message = getProcessMessage(type, status)]
                   h3 == [h2 EXCEPT !.pr[currentProcess] = AssignParams(@, params)]
                   sorted == NewArr(h3)
                   h4 == [h3 EXCEPT !.ar[sorted] = SortDoneFirst(h3, h3.ar[arr]),
                                    !.ex[h3.se[step]].process = sorted]
               IN updateStepInRoute(h4, step, enabled)

updateProcess(h, step, type, status, params, now, enabled) ==
  IF h.se[step] = NoRef
  THEN Result(h, <<>>, "Can't update an empty step execution.")
  ELSE LET arr == ProcessArr(h, step)
           idx == FindIndex(h.ar[arr], {p \in ProcRefs : h.pr[p].type = type})
       IN IF idx = -1
          THEN Result(h, <<>>, "Can't find a process for the given type.")
          ELSE LET currentProcess == h.ar[arr][idx + 1]
                   h1 == StatusDefaults(h, step, currentProcess, status, now)
                   h2 == [h1 EXCEPT !.pr[currentProcess].status = status,
                                    !.pr[currentProcess].message = getProcessMessage(type, status)]
                   h3 == [h2 EXCEPT !.pr[currentProcess] = AssignParams(@, params)]
                   sorted == NewArr(h3)
                   h4 == [h3 EXCEPT !.ar[sorted] = SortDoneFirst(h3, h3.ar[arr]),
                                    !.ex[h3.se[step]].process = sorted]
               IN updateStepInRoute(h4, step, enabled)

removeProcess(h, step, type, enabled) ==
  IF h.se[step] = NoRef
  THEN Result(h, <<>>, "Execution hasn't been initialized.")
  ELSE LET arr == ProcessArr(h, step)
           index == FindIndex(h.ar[arr], {p \in ProcRefs : h.pr[p].type = type})
           h1 == [h EXCEPT !.ar[arr] = Splice(h.ar[arr], index, 1)]
       IN updateStepInRoute(h1, step, enabled)

\* ------------------------------------------------------------------------
\* BaseStepExecutor
\* ------------------------------------------------------------------------

defaultInteractionSettings ==
  [allowInteraction |-> TRUE, allowUpdates |-> TRUE, allowExecution |-> TRUE]

\* InteractionSettings objects: each key is optional
SettingsChoices ==
  UNION {[keys -> BOOLEAN] : keys \in SUBSET {"allowInteraction", "allowUpdates", "allowExecution"}}

\* settings that keep the current value of a key that is left out
interactionSettings_Sticky(settings) ==
  [k \in DOMAIN defaultInteractionSettings |->
     IF k \in DOMAIN settings THEN settings[k]
     ELSE CASE k = "allowInteraction" -> allowUserInteraction
            [] k = "allowUpdates" -> shouldUpdate
            [] OTHER -> allowExecution]

\* { ...defaultInteractionSettings, ...settings }
interactionSettings(settings) ==
  [k \in DOMAIN defaultInteractionSettings |->
     IF k \in DOMAIN settings THEN settings[k] ELSE defaultInteractionSettings[k]]

\* ------------------------------------------------------------------------
\* EVMStepExecutor: values
\* ------------------------------------------------------------------------

\* invocations of executeStep on the step in one behaviour
MaxInvocations == 2

\* step.action.fromAddress, and another account of the wallet
FromAddress == "0xfrom"

AccountAddresses == {FromAddress, "0xother"}

\* what sendTransaction, sendCalls and relayTransaction return, and the hash
\* of a transaction that replaces the submitted one
TransactionHash == "0xhash"

BatchId == "batchId"

TaskId == "taskId"

ReplacementHash == "0xreplaced"

\* `${fromChain.metamask.blockExplorerUrls[0]}tx/${txHash}`
txLink(txHash) == <<"blockExplorerUrl", "tx/", txHash>>

\* exceptions: a TransactionError of the SDK carries a code, an error of a
\* wallet or of a service does not
NoException == [name |-> "none", code |-> Undefined, message |-> Undefined]

TransactionError(code, message) ==
  [name |-> "TransactionError", code |-> code, message |-> message]

ForeignError(message) == [name |-> "Error", code |-> Undefined, message |-> message]

\* the failure a wallet or a service reports at a suspension point
RequestFailed == ForeignError("request failed")

WalletChangedMessage ==
  "The wallet address that requested the quote does not match the wallet address attempting to sign the transaction."

\* the classifier: an error of the SDK is passed through, any other error
\* becomes an error of the SDK with a code of the closed set
parseEVMErrors(e) ==
  IF e.name = "TransactionError" THEN e
  ELSE TransactionError("InternalError", e.message)

\* the step's fixed inputs: step.action, isEVMPermitStep(step), the chain
\* configuration of fromChain and the token's support of native permits
StepInputs ==
  [isBridgeExecution : BOOLEAN, nativeToken : BOOLEAN, isPermitStep : BOOLEAN,
   permit2 : BOOLEAN, permit2Proxy : BOOLEAN, nativePermit : BOOLEAN]

\* before construction of a step: no inputs are used by the StatusManager
NoInputs ==
  [isBridgeExecution |-> FALSE, nativeToken |-> FALSE, isPermitStep |-> FALSE,
   permit2 |-> FALSE, permit2Proxy |-> FALSE, nativePermit |-> FALSE]

\* the locals of an invocation of executeStep and the record of what the
\* invocation has done; pc "idle" is no invocation in flight
NoLocals ==
  [pc |-> "idle", site |-> Undefined, destinationChainProcess |-> Undefined,
   atomicBatchSupported |-> FALSE,
   calls |-> <<>>, process |-> Undefined, txHash |-> Undefined,
   permitSignature |-> FALSE, e |-> NoException,
   updatedClient |-> Undefined, accountAddress |-> Undefined,
   allowanceChecks |-> 0, signed |-> <<>>, submitted |-> <<>>,
   watcher |-> Undefined, replacedBy |-> Undefined,
   outcome |-> Undefined, raised |-> NoException]

\* handles: what the submission calls of all invocations have returned
NoRun == [inputs |-> NoInputs, transactionRequest |-> FALSE, invocations |-> 0,
          handles |-> <<>>, local |-> NoLocals]

\* ------------------------------------------------------------------------
\* EVMStepExecutor: the decisions of executeStep
\* ------------------------------------------------------------------------

\* the process type of a transfer for every step
currentProcessType_AlwaysCrossChain(inputs) == "CROSS_CHAIN"

currentProcessType(inputs) == IF inputs.isBridgeExecution THEN "CROSS_CHAIN" ELSE "SWAP"

\* step.execution.process.find((p) => p.type === type), as a reference
FindProcess(h, step, type) ==
  LET seq == h.ar[ProcessArr(h, step)]
      index == FindIndex(seq, {p \in ProcRefs : h.pr[p].type = type})
  IN IF index = -1 THEN NoRef ELSE seq[index + 1]

\* nativePermitSupported without the test for a permit step
nativePermitSupported_IgnoresPermitStep(inputs, atomicBatchSupported) ==
  /\ inputs.permit2Proxy
  /\ inputs.nativePermit
  /\ ~atomicBatchSupported

nativePermitSupported(inputs, atomicBatchSupported) ==
  /\ inputs.permit2Proxy
  /\ inputs.nativePermit
  /\ ~atomicBatchSupported
  /\ ~inputs.isPermitStep

permit2Supported(inputs, atomicBatchSupported) ==
  inputs.permit2 /\ inputs.permit2Proxy /\ ~atomicBatchSupported

permitSupported(inputs, atomicBatchSupported) ==
  \/ permit2Supported(inputs, atomicBatchSupported)
  \/ nativePermitSupported(inputs, atomicBatchSupported)

\* checkForAllowance left out when Permit2 is supported, too
checkForAllowance_SkipsForPermit2(h, existingProcess, inputs, atomicBatchSupported) ==
  /\ (existingProcess = NoRef \/ h.pr[existingProcess].txHash = Undefined)
  /\ ~inputs.nativeToken
  /\ ~nativePermitSupported(inputs, atomicBatchSupported)
  /\ ~permit2Supported(inputs, atomicBatchSupported)

\* existingProcess is the process of the current type, NoRef when there is none
checkForAllowance(h, existingProcess, inputs, atomicBatchSupported) ==
  /\ (existingProcess = NoRef \/ h.pr[existingProcess].txHash = Undefined)
  /\ ~inputs.nativeToken
  /\ ~nativePermitSupported(inputs, atomicBatchSupported)

\* the submission call of an invocation that submits
submissionCall(inputs, atomicBatchSupported, permitSignature) ==
  IF atomicBatchSupported THEN "sendCalls"
  ELSE IF inputs.isPermitStep /\ permitSignature THEN "relayTransaction"
  ELSE "sendTransaction"

\* what the submission call returns
SubmissionHandle(call) ==
  CASE call = "sendCalls" -> BatchId
    [] call = "relayTransaction" -> TaskId
    [] OTHER -> TransactionHash

\* the parameters persisted with status PENDING after the submission
pendingParams(atomicBatchSupported, txHash) ==
  IF atomicBatchSupported
  THEN [atomicBatchSupported |-> "true"]
  ELSE [txHash |-> txHash, txLink |-> txLink(txHash)]

\* the parameters of a replacing transaction without its hash
replacementParams_LinkOnly(transactionHash) ==
  [txLink |-> txLink(transactionHash)]

\* the parameters persisted with status PENDING for a replacing transaction
replacementParams(transactionHash) ==
  [txHash |-> transactionHash, txLink |-> txLink(transactionHash)]

\* the receipt watcher that is awaited
receiptWatcher(inputs, atomicBatchSupported) ==
  IF atomicBatchSupported THEN "waitForBatchTransactionReceipt"
  ELSE IF inputs.isPermitStep THEN "waitForRelayedTransactionReceipt"
  ELSE "waitForTransactionReceipt"

\* two calls of the StatusManager in sequence: an error of the first one
\* leaves the second one out
Chain(first, second) ==
  IF first.threw # NoError THEN first
  ELSE Result(second.h, first.hooks \o second.hooks, second.threw)

\* checkClient comparing the account only when switchChain returned a client
checkClient_ComparesOnlyWithClient(h, step, process, updatedClient, accountAddress, now, enabled) ==
  IF updatedClient # Undefined /\ accountAddress # FromAddress
  THEN LET created == IF process = Undefined
                      THEN findOrCreateProcess(h, step, "TRANSACTION", Undefined, now, enabled)
                      ELSE Result(h, <<>>, NoError)
           processToUpdate == IF process = Undefined THEN "TRANSACTION" ELSE process
           failed == updateProcess(created.h, step, processToUpdate, "FAILED",
                                   [error |-> <<"WalletChangedDuringExecution",
                                                WalletChangedMessage>>],
                                   now, enabled)
           r == Chain(created, Chain(failed, updateExecution(failed.h, step, "FAILED",
                                                             Undefined, enabled)))
       IN [h |-> r.h, hooks |-> r.hooks, client |-> Undefined,
           e |-> parseEVMErrors(TransactionError("WalletChangedDuringExecution",
                                                 WalletChangedMessage))]
  ELSE [h |-> h, hooks |-> <<>>, client |-> updatedClient, e |-> NoException]

\* checkClient marking the process CANCELLED on a mismatch
checkClient_Cancels(h, step, process, updatedClient, accountAddress, now, enabled) ==
  IF accountAddress # FromAddress
  THEN LET created == IF process = Undefined
                      THEN findOrCreateProcess(h, step, "TRANSACTION", Undefined, now, enabled)
                      ELSE Result(h, <<>>, NoError)
           processToUpdate == IF process = Undefined THEN "TRANSACTION" ELSE process
           failed == updateProcess(created.h, step, processToUpdate, "CANCELLED",
                                   [error |-> <<"WalletChangedDuringExecution",
                                                WalletChangedMessage>>],
                                   now, enabled)
           r == Chain(created, Chain(failed, updateExecution(failed.h, step, "FAILED",
                                                             Undefined, enabled)))
       IN [h |-> r.h, hooks |-> r.hooks, client |-> Undefined,
           e |-> parseEVMErrors(TransactionError("WalletChangedDuringExecution",
                                                 WalletChangedMessage))]
  ELSE [h |-> h, hooks |-> <<>>, client |-> updatedClient, e |-> NoException]

\* checkClient once switchChain has returned updatedClient (a client or
\* undefined) and the wallet has reported accountAddress; process is the type
\* of the process passed, Undefined when none is passed; e is the error
\* thrown, client what is returned
checkClient(h, step, process, updatedClient, accountAddress, now, enabled) ==
  IF accountAddress # FromAddress
  THEN LET created == IF process = Undefined
                      THEN findOrCreateProcess(h, step, "TRANSACTION", Undefined, now, enabled)
                      ELSE Result(h, <<>>, NoError)
           processToUpdate == IF process = Undefined THEN "TRANSACTION" ELSE process
           failed == updateProcess(created.h, step, processToUpdate, "FAILED",
                                   [error |-> <<"WalletChangedDuringExecution",
                                                WalletChangedMessage>>],
                                   now, enabled)
           r == Chain(created, Chain(failed, updateExecution(failed.h, step, "FAILED",
                                                             Undefined, enabled)))
       IN [h |-> r.h, hooks |-> r.hooks, client |-> Undefined,
           e |-> IF r.threw # NoError THEN ForeignError(r.threw)
                 ELSE parseEVMErrors(TransactionError("WalletChangedDuringExecution",
                                                      WalletChangedMessage))]
  ELSE [h |-> h, hooks |-> <<>>, client |-> updatedClient, e |-> NoException]

\* the catch block of executeStep
catch(h, step, process, e, now, enabled) ==
  LET error == parseEVMErrors(e)
      failed == updateProcess(h, step, process, "FAILED",
                              [error |-> <<error.code, error.message>>], now, enabled)
      r == Chain(failed, updateExecution(failed.h, step, "FAILED", Undefined, enabled))
  IN [h |-> r.h, hooks |-> r.hooks,
      e |-> IF r.threw # NoError THEN ForeignError(r.threw) ELSE error]

\* ------------------------------------------------------------------------
\* Permit message builder: values
\* ------------------------------------------------------------------------

\* calls of the builder on one permit object in one behaviour
MaxCalls == 2

\* the deadline, the nonce and the amounts of a permit are 0..MaxUint
MaxUint == 3

\* elements of permitted in a batch permit
MaxBatch == 2

\* the maxima of constants.js, scaled to the integers of the model
MaxSigDeadline == 1

MaxUnorderedNonce == 2

MaxSignatureTransferAmount == 2

Permit2Address == "0xpermit2"

ChainId == 1

\* TokenPermissions objects
TokenPermissions == [token : {"0xtoken"}, amount : 0..MaxUint]

\* sequences over S of a length up to n
SeqUpTo(S, n) == UNION {[1..k -> S] : k \in 0..n}

\* permit.permitted: one TokenPermissions object (elems has it as its only
\* element) or an array of them
Permitted ==
  [isArray : {FALSE}, elems : [1..1 -> TokenPermissions]]
    \cup [isArray : {TRUE}, elems : SeqUpTo(TokenPermissions, MaxBatch)]

\* the PermitTransferFrom and PermitBatchTransferFrom objects a caller
\* builds; witness is the property that Object.assign adds
Permits ==
  [permitted : Permitted, spender : {"0xspender"}, nonce : 0..MaxUint,
   deadline : 0..MaxUint, witness : {Undefined}]

\* the witness argument when it is left out
NoWitness == [witness |-> Undefined, witnessTypeName |-> Undefined, witnessType |-> <<>>]

\* Witness objects: one with a single type, one whose type refers to a second
Witnesses ==
  { [witness |-> "order", witnessTypeName |-> "Order",
     witnessType |-> [Order |-> << <<"id", "uint256">> >>]],
    [witness |-> "mandate", witnessTypeName |-> "Mandate",
     witnessType |-> [Mandate |-> << <<"item", "Item">> >>,
                      Item |-> << <<"id", "uint256">> >>]] }

\* witness ? ... : ...
Truthy(witness) == witness # NoWitness

TOKEN_PERMISSIONS == << <<"token", "address">>, <<"amount", "uint256">> >>

PERMIT_TRANSFER_FROM_TYPES ==
  [TokenPermissions |-> TOKEN_PERMISSIONS,
   PermitTransferFrom |-> << <<"permitted", "TokenPermissions">>, <<"spender", "address">>,
                             <<"nonce", "uint256">>, <<"deadline", "uint256">> >>]

PERMIT_BATCH_TRANSFER_FROM_TYPES ==
  [TokenPermissions |-> TOKEN_PERMISSIONS,
   PermitBatchTransferFrom |-> << <<"permitted", "TokenPermissions[]">>,
                                  <<"spender", "address">>,
                                  <<"nonce", "uint256">>, <<"deadline", "uint256">> >>]

\* ------------------------------------------------------------------------
\* Permit message builder: the functions; each returns the permit object as
\* it leaves it, the name of the error thrown and the value returned
\* ------------------------------------------------------------------------

\* invariant(condition, message): the name of the error thrown, if any
invariant(condition, message) == IF condition THEN NoError ELSE message

\* the first error of a sequence of checks
FirstThrown(checks) ==
  IF \A i \in DOMAIN checks : checks[i] = NoError THEN NoError
  ELSE checks[Lowest({i \in DOMAIN checks : checks[i] # NoError})]

permit2Domain(permit2Address, chainId) ==
  [name |-> "Permit2", chainId |-> chainId, verifyingContract |-> permit2Address]

isPermitTransferFrom(permit) == ~permit.permitted.isArray

\* validateTokenPermissions refusing the maximum
validateTokenPermissions_RefusesMaximum(permissions) ==
  invariant(MaxSignatureTransferAmount > permissions.amount, "AMOUNT_OUT_OF_RANGE")

validateTokenPermissions(permissions) ==
  invariant(MaxSignatureTransferAmount >= permissions.amount, "AMOUNT_OUT_OF_RANGE")

\* { ...first, ...second }: the properties of second win
Spread(first, second) == second @@ first

\* Object.assign(permit, { witness: witness.witness })
AssignWitness(permit, witness) == [permit EXCEPT !.witness = witness.witness]

\* value is <<>> when nothing is returned and <<v>> when v is returned
Built(permit, threw, value) == [permit |-> permit, threw |-> threw, value |-> value]

getPermitTransferData(permit, permit2Address, chainId, witness) ==
  LET threw == FirstThrown(
        << invariant(MaxSigDeadline >= permit.deadline, "SIG_DEADLINE_OUT_OF_RANGE"),
           invariant(MaxUnorderedNonce >= permit.nonce, "NONCE_OUT_OF_RANGE"),
           validateTokenPermissions(permit.permitted.elems[1]) >>)
      domain == permit2Domain(permit2Address, chainId)
      types ==
        IF Truthy(witness)
        THEN Spread(Spread([TokenPermissions |-> TOKEN_PERMISSIONS], witness.witnessType),
                    [PermitWitnessTransferFrom |->
                       << <<"permitted", "TokenPermissions">>, <<"spender", "address">>,
                          <<"nonce", "uint256">>, <<"deadline", "uint256">>,
                          <<"witness", witness.witnessTypeName>> >>])
        ELSE PERMIT_TRANSFER_FROM_TYPES
      values == IF Truthy(witness) THEN AssignWitness(permit, witness) ELSE permit
  IN IF threw # NoError THEN Built(permit, threw, <<>>)
     ELSE Built(values, NoError,
                << [domain |-> domain, types |-> types, values |-> values] >>)

getPermitBatchTransferData(permit, permit2Address, chainId, witness) ==
  LET threw == FirstThrown(
        << invariant(MaxSigDeadline >= permit.deadline, "SIG_DEADLINE_OUT_OF_RANGE"),
           invariant(MaxUnorderedNonce >= permit.nonce, "NONCE_OUT_OF_RANGE") >>
        \o [i \in DOMAIN permit.permitted.elems |->
              validateTokenPermissions(permit.permitted.elems[i])])
      domain == permit2Domain(permit2Address, chainId)
      types ==
        IF Truthy(witness)
        THEN Spread(Spread(witness.witnessType, [TokenPermissions |-> TOKEN_PERMISSIONS]),
                    [PermitBatchWitnessTransferFrom |->
                       << <<"permitted", "TokenPermissions[]">>, <<"spender", "address">>,
                          <<"nonce", "uint256">>, <<"deadline", "uint256">>,
                          <<"witness", witness.witnessTypeName>> >>])
        ELSE PERMIT_BATCH_TRANSFER_FROM_TYPES
      values == IF Truthy(witness) THEN AssignWitness(permit, witness) ELSE permit
  IN IF threw # NoError THEN Built(permit, threw, <<>>)
     ELSE Built(values, NoError,
                << [domain |-> domain, types |-> types, values |-> values] >>)

getPermitData(permit, permit2Address, chainId, witness) ==
  IF isPermitTransferFrom(permit)
  THEN getPermitTransferData(permit, permit2Address, chainId, witness)
  ELSE getPermitBatchTransferData(permit, permit2Address, chainId, witness)

\* the primary type of a plain permit, whatever the witness is
primaryType_IgnoresWitness(permit, witness) ==
  IF isPermitTransferFrom(permit) THEN "PermitTransferFrom" ELSE "PermitBatchTransferFrom"

\* the primaryType that hash passes to hashTypedData
primaryType(permit, witness) ==
  IF isPermitTransferFrom(permit)
  THEN IF Truthy(witness) THEN "PermitWitnessTransferFrom" ELSE "PermitTransferFrom"
  ELSE IF Truthy(witness) THEN "PermitBatchWitnessTransferFrom"
       ELSE "PermitBatchTransferFrom"

\* hashTypedData, for a primary type of the type set: the digest of the
\* domain, of the primary type with its members, and of the message's values
\* for these members
hashTypedData(domain, types, primary, message) ==
  [keccak256 |-> "EIP712", domain |-> domain, primaryType |-> primary,
   members |-> types[primary],
   message |-> [i \in DOMAIN types[primary] |-> message[types[primary][i][1]]]]

hash(permit, permit2Address, chainId, witness) ==
  LET data == getPermitData(permit, permit2Address, chainId, witness)
      primary == primaryType(permit, witness)
  IN IF data.threw # NoError THEN data
     ELSE IF primary \notin DOMAIN data.value[1].types
     THEN Built(data.permit, "InvalidPrimaryTypeError", <<>>)
     ELSE Built(data.permit, NoError,
                << hashTypedData(data.value[1].domain, data.value[1].types, primary,
                                 data.value[1].values) >>)

\* the permit object of a behaviour, the number of calls made on it and the
\* last call: function, witness argument, error thrown and value returned
NoBuilder ==
  [permit |-> Undefined, calls |-> 0,
   last |-> [op |-> "none", witness |-> NoWitness, threw |-> NoError, value |-> <<>>]]

\* ------------------------------------------------------------------------
\* The calls, as actions
\* ------------------------------------------------------------------------

NoArgs == [step |-> Undefined, type |-> Undefined, status |-> Undefined,
           params |-> <<>>, receipt |-> Undefined, value |-> <<>>]

Init ==
  /\ held \in CallerSteps
  /\ stepExec = [s \in StepObjs |-> NoRef]
  /\ execs = [e \in ExecRefs |-> FreeExec]
  /\ arrays = [a \in ArrRefs |-> FreeArr]
  /\ procs = [p \in ProcRefs |-> FreeProc]
  /\ shouldUpdate = TRUE
  /\ allowUserInteraction = TRUE
  /\ allowExecution = TRUE
  /\ hooks = <<>>
  /\ last = [op |-> "constructor", args |-> NoArgs, threw |-> NoError]
  /\ nops = 0
  /\ run = NoRun
  /\ builder = NoBuilder

InitExecutionObject ==
  LET r == initExecutionObject(Heap, held, shouldUpdate)
      c == Collect(r.h)
  IN /\ nops < MaxOps
     /\ nops' = nops + 1
     /\ stepExec' = c.se /\ execs' = c.ex /\ arrays' = c.ar /\ procs' = c.pr
     /\ hooks' = r.hooks
     /\ last' = [op |-> "initExecutionObject", args |-> [NoArgs EXCEPT !.step = held],
                 threw |-> r.threw]
     /\ UNCHANGED <<builder, held, shouldUpdate, allowUserInteraction, allowExecution, run>>

UpdateExecution ==
  \E status \in ExecutionStatuses, receipt \in Receipts :
    LET r == updateExecution(Heap, held, status, receipt, shouldUpdate)
        c == Collect(r.h)
    IN /\ nops < MaxOps
       /\ nops' = nops + 1
       /\ stepExec' = c.se /\ execs' = c.ex /\ arrays' = c.ar /\ procs' = c.pr
       /\ hooks' = r.hooks
       /\ last' = [op |-> "updateExecution",
                   args |-> [NoArgs EXCEPT !.step = held, !.status = status,
                                           !.receipt = receipt],
                   threw |-> r.threw]
       /\ UNCHANGED <<builder, held, shouldUpdate, allowUserInteraction, allowExecution, run>>

FindOrCreateProcess ==
  \E type \in ProcessTypes, status \in FindStatuses :
    LET r == findOrCreateProcess(Heap, held, type, status, DateNow, shouldUpdate)
        c == Collect(r.h)
    IN /\ nops < MaxOps
       /\ nops' = nops + 1
       /\ stepExec' = c.se /\ execs' = c.ex /\ arrays' = c.ar /\ procs' = c.pr
       /\ hooks' = r.hooks
       /\ last' = [op |-> "findOrCreateProcess",
                   args |-> [NoArgs EXCEPT !.step = held, !.type = type,
                                           !.status = status],
                   threw |-> r.threw]
       /\ UNCHANGED <<builder, held, shouldUpdate, allowUserInteraction, allowExecution, run>>

UpdateProcess ==
  \E type \in ProcessTypes, status \in Statuses, params \in ParamChoices :
    LET r == updateProcess(Heap, held, type, status, params, DateNow, shouldUpdate)
        c == Collect(r.h)
    IN /\ nops < MaxOps
       /\ nops' = nops + 1
       /\ stepExec' = c.se /\ execs' = c.ex /\ arrays' = c.ar /\ procs' = c.pr
       /\ hooks' = r.hooks
       /\ last' = [op |-> "updateProcess",
                   args |-> [NoArgs EXCEPT !.step = held, !.type = type,
                                           !.status = status, !.params = params],
                   threw |-> r.threw]
       /\ UNCHANGED <<builder, held, shouldUpdate, allowUserInteraction, allowExecution, run>>

RemoveProcess ==
  \E type \in ProcessTypes :
    LET r == removeProcess(Heap, held, type, shouldUpdate)
        c == Collect(r.h)
    IN /\ nops < MaxOps
       /\ nops' = nops + 1
       /\ stepExec' = c.se /\ execs' = c.ex /\ arrays' = c.ar /\ procs' = c.pr
       /\ hooks' = r.hooks
       /\ last' = [op |-> "removeProcess",
                   args |-> [NoArgs EXCEPT !.step = held, !.type = type],
                   threw |-> r.threw]
       /\ UNCHANGED <<builder, held, shouldUpdate, allowUserInteraction, allowExecution, run>>

AllowUpdates ==
  \E value \in BOOLEAN :
    /\ nops < MaxOps
    /\ nops' = nops + 1
    /\ shouldUpdate' = value
    /\ hooks' = <<>>
    /\ last' = [op |-> "allowUpdates", args |-> [NoArgs EXCEPT !.value = <<value>>],
                threw |-> NoError]
    /\ UNCHANGED <<builder, held, stepExec, execs, arrays, procs, allowUserInteraction,
                   allowExecution, run>>

\* BaseStepExecutor.setInteraction; it calls StatusManager.allowUpdates
SetInteraction ==
  \E settings \in SettingsChoices :
    /\ nops < MaxOps
    /\ nops' = nops + 1
    /\ allowUserInteraction' = interactionSettings(settings).allowInteraction
    /\ shouldUpdate' = interactionSettings(settings).allowUpdates
    /\ allowExecution' = interactionSettings(settings).allowExecution
    /\ hooks' = <<>>
    /\ last' = [op |-> "setInteraction", args |-> [NoArgs EXCEPT !.value = settings],
                threw |-> NoError]
    /\ UNCHANGED <<builder, held, stepExec, execs, arrays, procs, run>>

\* the calls on the StatusManager
Next ==
  \/ InitExecutionObject
  \/ UpdateExecution
  \/ FindOrCreateProcess
  \/ UpdateProcess
  \/ RemoveProcess
  \/ AllowUpdates

Spec == Init /\ [][Next]_vars

\* the calls on a step executor and, through it, on its StatusManager
NextInteraction ==
  \/ SetInteraction
  \/ InitExecutionObject
  \/ FindOrCreateProcess

SpecInteraction == Init /\ [][NextInteraction]_vars

\* a route that is resumed: its first step has been executed before the
\* StatusManager is constructed and has a CROSS_CHAIN process that is DONE,
\* its second step has not been started
ResumedRoute ==
  LET empty == [se |-> [s \in StepObjs |-> NoRef], ex |-> [e \in ExecRefs |-> FreeExec],
                ar |-> [a \in ArrRefs |-> FreeArr], pr |-> [p \in ProcRefs |-> FreeProc]]
      first == initExecutionObject(empty, "r1", TRUE).h
      created == findOrCreateProcess(first, "r1", "CROSS_CHAIN", Undefined, DateNow, TRUE).h
      done == updateProcess(created, "r1", "CROSS_CHAIN", "DONE", <<>>, DateNow, TRUE).h
  IN Collect(updateExecution(done, "r1", "DONE", "toAmount", TRUE).h)

\* the steps that a caller passes to the StatusManager of a resumed route:
\* the step of the route that is next, or a step of another route
ResumedSteps == {"r2", "dx"}

\* a StatusManager constructed for a resumed route
InitRoute ==
  /\ held \in ResumedSteps
  /\ stepExec = ResumedRoute.se
  /\ execs = ResumedRoute.ex
  /\ arrays = ResumedRoute.ar
  /\ procs = ResumedRoute.pr
  /\ shouldUpdate = TRUE
  /\ allowUserInteraction = TRUE
  /\ allowExecution = TRUE
  /\ hooks = <<>>
  /\ last = [op |-> "constructor", args |-> NoArgs, threw |-> NoError]
  /\ nops = 0
  /\ run = NoRun
  /\ builder = NoBuilder

SpecRoute == InitRoute /\ [][Next]_vars

\* ------------------------------------------------------------------------
\* EVMStepExecutor: executeStep, one action for each stretch between two
\* suspension points or two calls of the StatusManager
\* ------------------------------------------------------------------------

\* the invocation returns the step
Returns(local) == [local EXCEPT !.pc = "idle", !.outcome = "returned"]

\* the invocation raises e to its caller
Throws(local, e) == [local EXCEPT !.pc = "idle", !.outcome = "threw", !.raised = e]

\* the invocation goes on as next unless the StatusManager has thrown: inside
\* the try block the error is caught, outside it is raised to the caller
Continue(threw, next, inTry) ==
  IF threw = NoError THEN next
  ELSE IF inTry THEN [next EXCEPT !.pc = "catch", !.e = ForeignError(threw)]
  ELSE Throws(next, ForeignError(threw))

\* a step with its fixed inputs is handed to an executor
InitExecutor ==
  /\ held = "r1"
  /\ stepExec = [s \in StepObjs |-> NoRef]
  /\ execs = [e \in ExecRefs |-> FreeExec]
  /\ arrays = [a \in ArrRefs |-> FreeArr]
  /\ procs = [p \in ProcRefs |-> FreeProc]
  /\ shouldUpdate = TRUE
  /\ allowUserInteraction = TRUE
  /\ allowExecution = TRUE
  /\ hooks = <<>>
  /\ last = [op |-> "constructor", args |-> NoArgs, threw |-> NoError]
  /\ nops = 0
  /\ run \in {[NoRun EXCEPT !.inputs = inputs] : inputs \in StepInputs}
  /\ builder = NoBuilder

\* setInteraction({ allowInteraction }) between two invocations
SetAllowInteraction ==
  \E allowInteraction \in BOOLEAN :
    LET settings == interactionSettings([allowInteraction |-> allowInteraction])
    IN /\ run.local.pc = "idle"
       /\ allowUserInteraction' = settings.allowInteraction
       /\ shouldUpdate' = settings.allowUpdates
       /\ allowExecution' = settings.allowExecution
       /\ UNCHANGED <<builder, held, stepExec, execs, arrays, procs, hooks, last, nops, run>>

\* executeStep up to the first checkClient
ExecuteStep ==
  LET r == initExecutionObject(Heap, held, shouldUpdate)
      c == Collect(r.h)
      destinationChainProcess == FindProcess(r.h, held, "RECEIVING_CHAIN")
      waiting == /\ destinationChainProcess # NoRef
                 /\ r.h.pr[destinationChainProcess].substatus = "WAIT_DESTINATION_TRANSACTION"
      next == [NoLocals EXCEPT !.outcome = "running", !.site = "initial",
                               !.destinationChainProcess =
                                  IF r.threw # NoError \/ destinationChainProcess = NoRef
                                  THEN Undefined
                                  ELSE r.h.pr[destinationChainProcess].substatus,
                               !.pc = IF r.threw # NoError \/ ~waiting
                                      THEN "checkClient" ELSE "getCapabilities"]
  IN /\ run.local.pc = "idle"
     /\ run.invocations < MaxInvocations
     /\ stepExec' = c.se /\ execs' = c.ex /\ arrays' = c.ar /\ procs' = c.pr
     /\ hooks' = r.hooks
     /\ run' = [run EXCEPT !.invocations = @ + 1,
                           !.local = Continue(r.threw, next, FALSE)]
     /\ UNCHANGED <<builder, held, shouldUpdate, allowUserInteraction, allowExecution, last, nops>>

\* checkClient at one of its three call sites: switchChain returns a client
\* or none, the wallet reports an account
CheckClient ==
  \E updatedClient \in {"client", Undefined}, accountAddress \in AccountAddresses :
    LET local == [run.local EXCEPT !.updatedClient = updatedClient,
                                   !.accountAddress = accountAddress]
        process == IF local.site = "initial" THEN Undefined ELSE local.process
        r == checkClient(Heap, held, process, updatedClient, accountAddress, DateNow,
                         shouldUpdate)
        c == Collect(r.h)
        next ==
          IF r.e # NoException
          THEN IF local.site = "initial" THEN Throws(local, r.e)
               ELSE [local EXCEPT !.pc = "catch", !.e = r.e]
          ELSE IF r.client = Undefined THEN Returns(local)
          ELSE CASE local.site = "initial" -> [local EXCEPT !.pc = "getCapabilities"]
                 [] local.site = "resume" ->
                      [local EXCEPT !.pc = "awaitReceipt",
                                    !.txHash = procs[FindProcess(Heap, held, local.process)].txHash]
                 [] OTHER -> [local EXCEPT !.pc = "requireAction"]
    IN /\ run.local.pc = "checkClient"
       /\ stepExec' = c.se /\ execs' = c.ex /\ arrays' = c.ar /\ procs' = c.pr
       /\ hooks' = r.hooks
       /\ run' = [run EXCEPT !.local = next]
       /\ UNCHANGED <<builder, held, shouldUpdate, allowUserInteraction, allowExecution, last, nops>>

\* the capability probe (a failure counts as unsupported) and the decision
\* on the allowance check
GetCapabilities ==
  \E atomicBatchSupported \in BOOLEAN :
    LET existingProcess == FindProcess(Heap, held, currentProcessType(run.inputs))
    IN /\ run.local.pc = "getCapabilities"
       /\ run' = [run EXCEPT
                    !.local.atomicBatchSupported = atomicBatchSupported,
                    !.local.pc = IF checkForAllowance(Heap, existingProcess, run.inputs,
                                                      atomicBatchSupported)
                                 THEN "checkAllowance" ELSE "findOrCreateProcess"]
       /\ hooks' = <<>>
       /\ UNCHANGED <<builder, held, stepExec, execs, arrays, procs, shouldUpdate,
                      allowUserInteraction, allowExecution, last, nops>>

\* checkAllowance fails, or returns no data, or returns the data of an
\* approval, which is queued for an atomic batch
CheckAllowance ==
  \E result \in {"throws", "none", "data"} :
    LET local == [run.local EXCEPT !.allowanceChecks = @ + 1]
    IN /\ run.local.pc = "checkAllowance"
       /\ run' = [run EXCEPT !.local =
                    CASE result = "throws" -> Throws(local, RequestFailed)
                      [] result = "data" /\ local.atomicBatchSupported ->
                           [local EXCEPT !.calls = <<"approve">>,
                                         !.pc = "findOrCreateProcess"]
                      [] OTHER -> [local EXCEPT !.pc = "findOrCreateProcess"]]
       /\ hooks' = <<>>
       /\ UNCHANGED <<builder, held, stepExec, execs, arrays, procs, shouldUpdate,
                      allowUserInteraction, allowExecution, last, nops>>

\* findOrCreateProcess for the swap or the transfer, and the branch on its
\* status and its txHash
FindCurrentProcess ==
  LET type == currentProcessType(run.inputs)
      r == findOrCreateProcess(Heap, held, type, Undefined, DateNow, shouldUpdate)
      c == Collect(r.h)
      process == r.h.pr[FindProcess(r.h, held, type)]
      local == [run.local EXCEPT !.process = type]
      next == IF r.threw # NoError THEN local
              ELSE IF process.status = "DONE" THEN [local EXCEPT !.pc = "receivingChain"]
              ELSE IF process.txHash # Undefined
              THEN [local EXCEPT !.pc = "checkClient", !.site = "resume"]
              ELSE [local EXCEPT !.pc = "started"]
  IN /\ run.local.pc = "findOrCreateProcess"
     /\ stepExec' = c.se /\ execs' = c.ex /\ arrays' = c.ar /\ procs' = c.pr
     /\ hooks' = r.hooks
     /\ run' = [run EXCEPT !.local = Continue(r.threw, next, FALSE)]
     /\ UNCHANGED <<builder, held, shouldUpdate, allowUserInteraction, allowExecution, last, nops>>

\* updateProcess(step, process.type, 'STARTED')
StartProcess ==
  LET r == updateProcess(Heap, held, run.local.process, "STARTED", <<>>, DateNow,
                         shouldUpdate)
      c == Collect(r.h)
  IN /\ run.local.pc = "started"
     /\ stepExec' = c.se /\ execs' = c.ex /\ arrays' = c.ar /\ procs' = c.pr
     /\ hooks' = r.hooks
     /\ run' = [run EXCEPT !.local = Continue(r.threw, [run.local EXCEPT !.pc = "prepare"],
                                              TRUE)]
     /\ UNCHANGED <<builder, held, shouldUpdate, allowUserInteraction, allowExecution, last, nops>>

\* checkBalance, the quote, stepComparison and the request hook: one of them
\* fails, or the step is left without a transactionRequest, or the
\* transaction is prepared
PrepareTransaction ==
  \E result \in {"throws", "unprepared", "prepared"} :
    /\ run.local.pc = "prepare"
    /\ result = "unprepared" => ~run.transactionRequest
    /\ run' =
         CASE result = "throws" ->
                [run EXCEPT !.local.pc = "catch", !.local.e = RequestFailed]
           [] result = "unprepared" ->
                [run EXCEPT !.local.pc = "catch",
                            !.local.e = TransactionError("TransactionUnprepared",
                                                         "Unable to prepare transaction.")]
           [] OTHER ->
                [run EXCEPT !.transactionRequest = TRUE,
                            !.local.pc = "checkClient", !.local.site = "submission"]
    /\ hooks' = <<>>
    /\ UNCHANGED <<builder, held, stepExec, execs, arrays, procs, shouldUpdate,
                   allowUserInteraction, allowExecution, last, nops>>

\* RequireAction without the test of allowUserInteraction
RequireAction_NoInteractionTest ==
  LET local == run.local
      permit == permitSupported(run.inputs, local.atomicBatchSupported)
      r == updateProcess(Heap, held, local.process,
                         IF permit THEN "PERMIT_REQUIRED" ELSE "ACTION_REQUIRED",
                         <<>>, DateNow, shouldUpdate)
      c == Collect(r.h)
      next == IF ~local.atomicBatchSupported /\ permit
              THEN [local EXCEPT !.pc = "signPermitMessage"]
              ELSE [local EXCEPT !.pc = "submit"]
  IN /\ run.local.pc = "requireAction"
     /\ stepExec' = c.se /\ execs' = c.ex /\ arrays' = c.ar /\ procs' = c.pr
     /\ hooks' = r.hooks
     /\ run' = [run EXCEPT !.local = Continue(r.threw, next, TRUE)]
     /\ UNCHANGED <<builder, held, shouldUpdate, allowUserInteraction, allowExecution, last, nops>>

\* updateProcess to PERMIT_REQUIRED or ACTION_REQUIRED, then the return when
\* user interaction is not allowed
RequireAction ==
  LET local == run.local
      permit == permitSupported(run.inputs, local.atomicBatchSupported)
      r == updateProcess(Heap, held, local.process,
                         IF permit THEN "PERMIT_REQUIRED" ELSE "ACTION_REQUIRED",
                         <<>>, DateNow, shouldUpdate)
      c == Collect(r.h)
      next == IF ~allowUserInteraction THEN Returns(local)
              ELSE IF ~local.atomicBatchSupported /\ permit
              THEN [local EXCEPT !.pc = "signPermitMessage"]
              ELSE [local EXCEPT !.pc = "submit"]
  IN /\ run.local.pc = "requireAction"
     /\ stepExec' = c.se /\ execs' = c.ex /\ arrays' = c.ar /\ procs' = c.pr
     /\ hooks' = r.hooks
     /\ run' = [run EXCEPT !.local = Continue(r.threw, next, TRUE)]
     /\ UNCHANGED <<builder, held, shouldUpdate, allowUserInteraction, allowExecution, last, nops>>

\* signPermitMessage fails or returns a signature; estimateGas may fail
\* without effect; updateProcess to ACTION_REQUIRED
SignPermitMessage ==
  \E result \in {"throws", "signature"} :
    LET local == [run.local EXCEPT !.signed = Append(@, "signPermitMessage")]
        r == IF result = "throws" THEN Result(Heap, <<>>, NoError)
             ELSE updateProcess(Heap, held, local.process, "ACTION_REQUIRED", <<>>,
                                DateNow, shouldUpdate)
        c == Collect(r.h)
        next == IF result = "throws"
                THEN [local EXCEPT !.pc = "catch", !.e = RequestFailed]
                ELSE [local EXCEPT !.permitSignature = TRUE, !.pc = "submit"]
    IN /\ run.local.pc = "signPermitMessage"
       /\ stepExec' = c.se /\ execs' = c.ex /\ arrays' = c.ar /\ procs' = c.pr
       /\ hooks' = r.hooks
       /\ run' = [run EXCEPT !.local = Continue(r.threw, next, TRUE)]
       /\ UNCHANGED <<builder, held, shouldUpdate, allowUserInteraction, allowExecution, last, nops>>

\* the submission call fails or returns a handle, which is persisted with
\* status PENDING
Submit ==
  \E result \in {"throws", "handle"} :
    LET call == submissionCall(run.inputs, run.local.atomicBatchSupported,
                               run.local.permitSignature)
        local == [run.local EXCEPT
                    !.submitted = Append(@, call),
                    !.calls = IF run.local.atomicBatchSupported
                              THEN Append(@, "transfer") ELSE @]
        txHash == SubmissionHandle(call)
        r == IF result = "throws" THEN Result(Heap, <<>>, NoError)
             ELSE updateProcess(Heap, held, local.process, "PENDING",
                                pendingParams(local.atomicBatchSupported, txHash),
                                DateNow, shouldUpdate)
        c == Collect(r.h)
        next == IF result = "throws"
                THEN [local EXCEPT !.pc = "catch", !.e = RequestFailed]
                ELSE [local EXCEPT !.txHash = txHash, !.pc = "awaitReceipt"]
    IN /\ run.local.pc = "submit"
       /\ stepExec' = c.se /\ execs' = c.ex /\ arrays' = c.ar /\ procs' = c.pr
       /\ hooks' = r.hooks
       /\ run' = [run EXCEPT !.local = Continue(r.threw, next, TRUE),
                             !.handles = IF result = "handle" THEN Append(@, txHash) ELSE @]
       /\ UNCHANGED <<builder, held, shouldUpdate, allowUserInteraction, allowExecution, last, nops>>

\* the dispatch to a receipt watcher
AwaitReceipt ==
  /\ run.local.pc = "awaitReceipt"
  /\ run' = [run EXCEPT
               !.local.watcher = receiptWatcher(run.inputs, run.local.atomicBatchSupported),
               !.local.pc = "receipt"]
  /\ hooks' = <<>>
  /\ UNCHANGED <<builder, held, stepExec, execs, arrays, procs, shouldUpdate,
                 allowUserInteraction, allowExecution, last, nops>>

\* the onReplaced callback of waitForTransactionReceipt
OnReplaced ==
  LET r == updateProcess(Heap, held, run.local.process, "PENDING",
                         replacementParams(ReplacementHash),
                         DateNow, shouldUpdate)
      c == Collect(r.h)
  IN /\ run.local.pc = "receipt"
     /\ run.local.watcher = "waitForTransactionReceipt"
     /\ run.local.replacedBy = Undefined
     /\ run.local.txHash # ReplacementHash
     /\ stepExec' = c.se /\ execs' = c.ex /\ arrays' = c.ar /\ procs' = c.pr
     /\ hooks' = r.hooks
     /\ run' = [run EXCEPT !.local = Continue(r.threw,
                                              [run.local EXCEPT !.replacedBy = ReplacementHash],
                                              TRUE)]
     /\ UNCHANGED <<builder, held, shouldUpdate, allowUserInteraction, allowExecution, last, nops>>

\* the watcher fails or returns a receipt; a receipt with another hash than
\* the awaited one is persisted with status PENDING
Receipt ==
  \E transactionHash \in {Undefined, run.local.txHash, ReplacementHash} :
    LET local == run.local
        throws == transactionHash = Undefined
        differs == ~throws /\ transactionHash # local.txHash
        r == IF differs
             THEN updateProcess(Heap, held, local.process, "PENDING",
                                replacementParams(transactionHash),
                                DateNow, shouldUpdate)
             ELSE Result(Heap, <<>>, NoError)
        c == Collect(r.h)
        next == IF throws THEN [local EXCEPT !.pc = "catch", !.e = RequestFailed]
                ELSE [local EXCEPT !.pc = "terminalUpdate",
                                   !.replacedBy = IF differs THEN transactionHash ELSE @]
    IN /\ run.local.pc = "receipt"
       /\ (run.local.replacedBy # Undefined /\ ~throws) => transactionHash = run.local.replacedBy
       /\ stepExec' = c.se /\ execs' = c.ex /\ arrays' = c.ar /\ procs' = c.pr
       /\ hooks' = r.hooks
       /\ run' = [run EXCEPT !.local = Continue(r.threw, next, TRUE)]
       /\ UNCHANGED <<builder, held, shouldUpdate, allowUserInteraction, allowExecution, last, nops>>

\* if (isBridgeExecution) updateProcess(step, process.type, 'DONE')
TerminalUpdate ==
  LET r == IF run.inputs.isBridgeExecution
           THEN updateProcess(Heap, held, run.local.process, "DONE", <<>>, DateNow,
                              shouldUpdate)
           ELSE Result(Heap, <<>>, NoError)
      c == Collect(r.h)
  IN /\ run.local.pc = "terminalUpdate"
     /\ stepExec' = c.se /\ execs' = c.ex /\ arrays' = c.ar /\ procs' = c.pr
     /\ hooks' = r.hooks
     /\ run' = [run EXCEPT !.local = Continue(r.threw,
                                              [run.local EXCEPT !.pc = "receivingChain"],
                                              TRUE)]
     /\ UNCHANGED <<builder, held, shouldUpdate, allowUserInteraction, allowExecution, last, nops>>

\* the catch block: the failure is recorded and raised
Catch ==
  LET r == catch(Heap, held, run.local.process, run.local.e, DateNow, shouldUpdate)
      c == Collect(r.h)
  IN /\ run.local.pc = "catch"
     /\ stepExec' = c.se /\ execs' = c.ex /\ arrays' = c.ar /\ procs' = c.pr
     /\ hooks' = r.hooks
     /\ run' = [run EXCEPT !.local = Throws(run.local, r.e)]
     /\ UNCHANGED <<builder, held, shouldUpdate, allowUserInteraction, allowExecution, last, nops>>

\* findOrCreateProcess for RECEIVING_CHAIN with status PENDING when bridging
ReceivingChain ==
  LET r == IF run.inputs.isBridgeExecution
           THEN findOrCreateProcess(Heap, held, "RECEIVING_CHAIN", "PENDING", DateNow,
                                    shouldUpdate)
           ELSE Result(Heap, <<>>, NoError)
      c == Collect(r.h)
      next == [run.local EXCEPT
                 !.pc = "waitForDestinationChainTransaction",
                 !.process = IF run.inputs.isBridgeExecution THEN "RECEIVING_CHAIN" ELSE @]
  IN /\ run.local.pc = "receivingChain"
     /\ stepExec' = c.se /\ execs' = c.ex /\ arrays' = c.ar /\ procs' = c.pr
     /\ hooks' = r.hooks
     /\ run' = [run EXCEPT !.local = Continue(r.threw, next, FALSE)]
     /\ UNCHANGED <<builder, held, shouldUpdate, allowUserInteraction, allowExecution, last, nops>>

\* waitForDestinationChainTransaction reports that the transaction on the
\* destination chain is awaited
DestinationPending ==
  LET r == updateProcess(Heap, held, run.local.process, "PENDING",
                         [substatus |-> "WAIT_DESTINATION_TRANSACTION"], DateNow,
                         shouldUpdate)
      c == Collect(r.h)
  IN /\ run.local.pc = "waitForDestinationChainTransaction"
     /\ run.inputs.isBridgeExecution
     /\ procs[FindProcess(Heap, held, run.local.process)].substatus
          # "WAIT_DESTINATION_TRANSACTION"
     /\ stepExec' = c.se /\ execs' = c.ex /\ arrays' = c.ar /\ procs' = c.pr
     /\ hooks' = r.hooks
     /\ run' = [run EXCEPT !.local = Continue(r.threw, run.local, FALSE)]
     /\ UNCHANGED <<builder, held, shouldUpdate, allowUserInteraction, allowExecution, last, nops>>

\* waitForDestinationChainTransaction ends: the process and the Execution
\* are DONE and executeStep returns, or they are FAILED and the error is raised
DestinationResult ==
  \E status \in {"DONE", "FAILED"} :
    LET local == run.local
        e == TransactionError("TransactionFailed", "Transaction failed.")
        updated == updateProcess(Heap, held, local.process, status,
                                 IF status = "DONE"
                                 THEN [substatus |-> "COMPLETED"]
                                 ELSE [error |-> <<e.code, e.message>>],
                                 DateNow, shouldUpdate)
        r == Chain(updated,
                   updateExecution(updated.h, held, status,
                                   IF status = "DONE" THEN "toAmount" ELSE Undefined,
                                   shouldUpdate))
        c == Collect(r.h)
        next == IF status = "DONE" THEN Returns(local) ELSE Throws(local, e)
    IN /\ run.local.pc = "waitForDestinationChainTransaction"
       /\ stepExec' = c.se /\ execs' = c.ex /\ arrays' = c.ar /\ procs' = c.pr
       /\ hooks' = r.hooks
       /\ run' = [run EXCEPT !.local = Continue(r.threw, next, FALSE)]
       /\ UNCHANGED <<builder, held, shouldUpdate, allowUserInteraction, allowExecution, last, nops>>

\* an executor working on one step of the route
NextExecutor ==
  \/ SetAllowInteraction
  \/ ExecuteStep
  \/ CheckClient
  \/ GetCapabilities
  \/ CheckAllowance
  \/ FindCurrentProcess
  \/ StartProcess
  \/ PrepareTransaction
  \/ RequireAction
  \/ SignPermitMessage
  \/ Submit
  \/ AwaitReceipt
  \/ OnReplaced
  \/ Receipt
  \/ TerminalUpdate
  \/ Catch
  \/ ReceivingChain
  \/ DestinationPending
  \/ DestinationResult

SpecExecutor == InitExecutor /\ [][NextExecutor]_vars

\* ------------------------------------------------------------------------
\* Permit message builder: calls on one permit object
\* ------------------------------------------------------------------------

\* a caller has built a permit object
InitPermit ==
  /\ held = "r1"
  /\ stepExec = [s \in StepObjs |-> NoRef]
  /\ execs = [e \in ExecRefs |-> FreeExec]
  /\ arrays = [a \in ArrRefs |-> FreeArr]
  /\ procs = [p \in ProcRefs |-> FreeProc]
  /\ shouldUpdate = TRUE
  /\ allowUserInteraction = TRUE
  /\ allowExecution = TRUE
  /\ hooks = <<>>
  /\ last = [op |-> "constructor", args |-> NoArgs, threw |-> NoError]
  /\ nops = 0
  /\ run = NoRun
  /\ builder \in {[NoBuilder EXCEPT !.permit = permit] : permit \in Permits}

\* the state after a call that returned or threw r
Called(op, witness, r) ==
  [permit |-> r.permit, calls |-> builder.calls + 1,
   last |-> [op |-> op, witness |-> witness, threw |-> r.threw, value |-> r.value]]

GetPermitTransferData ==
  \E witness \in Witnesses \cup {NoWitness} :
    /\ builder.calls < MaxCalls
    /\ isPermitTransferFrom(builder.permit)
    /\ builder' = Called("getPermitTransferData", witness,
                         getPermitTransferData(builder.permit, Permit2Address, ChainId,
                                               witness))
    /\ UNCHANGED <<held, stepExec, execs, arrays, procs, shouldUpdate,
                   allowUserInteraction, allowExecution, hooks, last, nops, run>>

GetPermitBatchTransferData ==
  \E witness \in Witnesses \cup {NoWitness} :
    /\ builder.calls < MaxCalls
    /\ ~isPermitTransferFrom(builder.permit)
    /\ builder' = Called("getPermitBatchTransferData", witness,
                         getPermitBatchTransferData(builder.permit, Permit2Address,
                                                    ChainId, witness))
    /\ UNCHANGED <<held, stepExec, execs, arrays, procs, shouldUpdate,
                   allowUserInteraction, allowExecution, hooks, last, nops, run>>

GetPermitData ==
  \E witness \in Witnesses \cup {NoWitness} :
    /\ builder.calls < MaxCalls
    /\ builder' = Called("getPermitData", witness,
                         getPermitData(builder.permit, Permit2Address, ChainId, witness))
    /\ UNCHANGED <<held, stepExec, execs, arrays, procs, shouldUpdate,
                   allowUserInteraction, allowExecution, hooks, last, nops, run>>

Hash ==
  \E witness \in Witnesses \cup {NoWitness} :
    /\ builder.calls < MaxCalls
    /\ builder' = Called("hash", witness,
                         hash(builder.permit, Permit2Address, ChainId, witness))
    /\ UNCHANGED <<held, stepExec, execs, arrays, procs, shouldUpdate,
                   allowUserInteraction, allowExecution, hooks, last, nops, run>>

NextPermit ==
  \/ GetPermitTransferData
  \/ GetPermitBatchTransferData
  \/ GetPermitData
  \/ Hash

SpecPermit == InitPermit /\ [][NextPermit]_vars

\* ------------------------------------------------------------------------
\* Properties
\* ------------------------------------------------------------------------

\* the step the caller holds has an Execution
HeldHasExecution == stepExec[held] # NoRef

\* the process array of the held step, as references
HeldArr == IF HeldHasExecution THEN arrays[execs[stepExec[held]].process] ELSE <<>>

\* the processes of the held step, by value
HeldProcesses == [i \in DOMAIN HeldArr |-> procs[HeldArr[i]]]

\* the Execution status of the held step
HeldStatus == IF HeldHasExecution THEN execs[stepExec[held]].status ELSE Undefined

\* the last call returned normally
Returned(op) == last.op = op /\ last.threw = NoError

Terminal == {"DONE", "FAILED", "CANCELLED"}

Position(seq, x) == CHOOSE i \in 1..Len(seq) : seq[i] = x

\* C1: process uniqueness: in every reachable state, the process list of
\* every step holds at most one Process of each type.
ProcessUniqueness ==
  \A s \in StepObjs :
    stepExec[s] # NoRef =>
      \A t \in ProcessTypes :
        Cardinality({i \in DOMAIN ProcessList(Heap, stepExec[s]) :
                       ProcessList(Heap, stepExec[s])[i].type = t}) <= 1

\* findOrCreateProcess has found an existing process among two and has
\* created nothing
ProcessUniquenessWitness ==
  /\ Returned("findOrCreateProcess")
  /\ shouldUpdate
  /\ hooks = <<>>
  /\ Len(HeldArr) = Cardinality(ProcessTypes)

DisplayOrdering ==
  [][(last'.op = "updateProcess" /\ last'.threw = NoError) =>
       /\ Len(HeldArr') = Len(HeldArr)
       /\ Range(HeldArr') = Range(HeldArr)
       /\ \A i, j \in DOMAIN HeldArr' :
            (i < j /\ procs'[HeldArr'[j]].status = "DONE")
              => procs'[HeldArr'[i]].status = "DONE"
       /\ \A i, j \in DOMAIN HeldArr :
            (/\ i < j
             /\ (procs'[HeldArr[i]].status = "DONE") = (procs'[HeldArr[j]].status = "DONE"))
            => Position(HeldArr', HeldArr[i]) < Position(HeldArr', HeldArr[j])]_vars

\* updateProcess has returned with a DONE process before one that is not DONE
DisplayOrderingWitness ==
  /\ Returned("updateProcess")
  /\ Len(HeldArr) = 2
  /\ HeldProcesses[1].status = "DONE"
  /\ HeldProcesses[2].status # "DONE"
  /\ HeldProcesses[1].type = last.args.type

\* C4: idempotent initialization: an initExecutionObject call that directly
\* follows an initExecutionObject call on the same step leaves the Execution
\* status, the process list and every other object as they were.
IdempotentInitialization ==
  [][(/\ last.op = "initExecutionObject"
      /\ last'.op = "initExecutionObject"
      /\ last'.args.step = last.args.step)
       => /\ HeldStatus' = HeldStatus
          /\ HeldProcesses' = HeldProcesses
          /\ UNCHANGED <<stepExec, execs, arrays, procs>>]_vars

\* initExecutionObject has been called on a step that has an Execution with
\* a process, and has changed nothing
IdempotentInitializationWitness ==
  /\ Returned("initExecutionObject")
  /\ shouldUpdate
  /\ hooks = <<>>
  /\ Len(HeldArr) >= 1
  /\ held = "r1"

\* C5: resume invariant: initExecutionObject on a step whose Execution status
\* is FAILED sets the status to PENDING and leaves the process list, and
\* every field of every process in it, as it was.
ResumeInvariant ==
  [][(last'.op = "initExecutionObject" /\ HeldStatus = "FAILED")
       => /\ HeldStatus' = "PENDING"
          /\ HeldArr' = HeldArr
          /\ HeldProcesses' = HeldProcesses]_vars

\* initExecutionObject has reset an Execution that holds a FAILED process
ResumeInvariantWitness ==
  /\ Returned("initExecutionObject")
  /\ hooks # <<>>
  /\ HeldStatus = "PENDING"
  /\ \E i \in DOMAIN HeldProcesses : HeldProcesses[i].status = "FAILED"

\* C6, as claimed: removeProcess on a step of the route whose Execution holds
\* no Process of the given type does not throw and leaves the process list.
RemoveMissingIsNoOp ==
  [][(/\ last'.op = "removeProcess"
      /\ HeldHasExecution
      /\ \E k \in DOMAIN routeSteps : stepId[routeSteps[k]] = stepId[held]
      /\ \A i \in DOMAIN HeldProcesses : HeldProcesses[i].type # last'.args.type)
       => /\ last'.threw = NoError
          /\ HeldArr' = HeldArr
          /\ HeldProcesses' = HeldProcesses]_vars

\* the process object of the given type in the list of the held step
Named(type) == CHOOSE p \in Range(HeldArr) : procs[p].type = type

\* C7: side effects of updateProcess: when updateProcess(step, type, status)
\* returns, the named process has the status; FAILED, PENDING and
\* ACTION_REQUIRED are also the Execution status and every other status
\* leaves the Execution status; CANCELLED, DONE and FAILED stamp doneAt
\* unless the caller passes a doneAt.
UpdateProcessEffects ==
  [][(last'.op = "updateProcess" /\ last'.threw = NoError) =>
       LET status == last'.args.status
           p == Named(last'.args.type)
       IN /\ procs'[p].status = status
          /\ p \in Range(HeldArr')
          /\ HeldStatus' = IF status \in {"FAILED", "PENDING", "ACTION_REQUIRED"}
                           THEN status ELSE HeldStatus
          /\ (status \in {"CANCELLED", "DONE", "FAILED"}
              /\ "doneAt" \notin DOMAIN last'.args.params)
               => procs'[p].doneAt = DateNow]_vars

\* updateProcess has set a process to DONE under an Execution that is PENDING
UpdateProcessEffectsWitness ==
  /\ Returned("updateProcess")
  /\ last.args.status = "DONE"
  /\ HeldStatus = "PENDING"
  /\ \E i \in DOMAIN HeldProcesses :
       /\ HeldProcesses[i].type = last.args.type
       /\ HeldProcesses[i].status = "DONE"
       /\ HeldProcesses[i].doneAt = DateNow

\* the calls that change Execution or Process records
MutationOps == {"initExecutionObject", "updateExecution", "findOrCreateProcess",
                "updateProcess", "removeProcess"}

\* a recorded call, made on heap h
Apply(h, call, enabled) ==
  CASE call.op = "initExecutionObject" ->
         initExecutionObject(h, call.args.step, enabled)
    [] call.op = "updateExecution" ->
         updateExecution(h, call.args.step, call.args.status, call.args.receipt, enabled)
    [] call.op = "findOrCreateProcess" ->
         findOrCreateProcess(h, call.args.step, call.args.type, call.args.status,
                             DateNow, enabled)
    [] call.op = "updateProcess" ->
         updateProcess(h, call.args.step, call.args.type, call.args.status,
                       call.args.params, DateNow, enabled)
    [] call.op = "removeProcess" ->
         removeProcess(h, call.args.step, call.args.type, enabled)

HeapChanged == <<stepExec, execs, arrays, procs>>' # <<stepExec, execs, arrays, procs>>

\* C8: updates suppressed: a mutation call made while shouldUpdate is false
\* calls no hook and leaves the step as the same call leaves it with updates
\* enabled; a mutation call that returns and changes a record while
\* shouldUpdate is true calls the hooks.
UpdatesSuppressed ==
  [][(last'.op \in MutationOps) =>
       /\ ~shouldUpdate =>
            /\ hooks' = <<>>
            /\ StepView(Heap', held) = StepView(Apply(Heap, last', TRUE).h, held)
       /\ (shouldUpdate /\ last'.threw = NoError /\ HeapChanged) =>
            {hooks'[i].hook : i \in DOMAIN hooks'}
              = {"updateRouteHook", "internalUpdateRouteCallback"}]_vars

\* with updates disabled, updateProcess has changed a process of the copy d1
\* and the step of the route does not show it
UpdatesSuppressedWitness ==
  /\ ~shouldUpdate
  /\ Returned("updateProcess")
  /\ hooks = <<>>
  /\ held = "d1"
  /\ stepExec["r1"] # NoRef
  /\ StepView(Heap, "r1").execution # StepView(Heap, "d1").execution

\* the call is one that propagates: updateExecution, updateProcess,
\* removeProcess, a creation by findOrCreateProcess, a creation or a reset by
\* initExecutionObject
PropagatingCall ==
  \/ last'.op \in {"updateExecution", "updateProcess", "removeProcess"}
  \/ /\ last'.op = "findOrCreateProcess"
     /\ \A i \in DOMAIN HeldProcesses : HeldProcesses[i].type # last'.args.type
  \/ /\ last'.op = "initExecutionObject"
     /\ (~HeldHasExecution \/ HeldStatus = "FAILED")

\* C9: propagation: while updates are enabled, a propagating call that
\* returns calls updateRouteHook and then internalUpdateRouteCallback, once
\* each, each with the whole Route as the call leaves it, in which the step
\* with the id of the step passed has the Execution of the step passed.
Propagation ==
  [][(shouldUpdate /\ last'.threw = NoError /\ PropagatingCall) =>
       /\ Len(hooks') = 2
       /\ hooks'[1].hook = "updateRouteHook"
       /\ hooks'[2].hook = "internalUpdateRouteCallback"
       /\ \A i \in 1..2 :
            /\ hooks'[i].route = RouteView(Heap')
            /\ \E k \in DOMAIN hooks'[i].route :
                 /\ hooks'[i].route[k].id = stepId[held]
                 /\ hooks'[i].route[k].execution = StepView(Heap', held).execution
                 /\ hooks'[i].route[k].execution # <<>>]_vars

\* updateExecution with a receipt on the copy d1 has called both hooks and the
\* step of the route shows the receipt
PropagationWitness ==
  /\ shouldUpdate
  /\ Returned("updateExecution")
  /\ held = "d1"
  /\ last.args.receipt # Undefined
  /\ Len(hooks) = 2
  /\ StepView(Heap, "r1").execution[1].toAmount = last.args.receipt

\* C10: propagation only on change: findOrCreateProcess on an existing
\* process with no status or with the status the process has changes nothing
\* and calls no hook; with another status it sets the status of that process
\* and nothing else, and calls each hook once when updates are enabled;
\* initExecutionObject calls each hook at most once, and only when the step
\* had no Execution or a FAILED one.
PropagationOnlyOnChange ==
  [][/\ (/\ last'.op = "findOrCreateProcess"
         /\ \E i \in DOMAIN HeldProcesses : HeldProcesses[i].type = last'.args.type)
          => LET status == last'.args.status
                 p == Named(last'.args.type)
             IN IF status = Undefined \/ status = procs[p].status
                THEN /\ hooks' = <<>>
                     /\ last'.threw = NoError
                     /\ UNCHANGED <<stepExec, execs, arrays, procs>>
                ELSE /\ stepExec'[held] = stepExec[held]
                     /\ HeldStatus' = HeldStatus
                     /\ HeldArr' = HeldArr
                     /\ HeldProcesses' =
                          [i \in DOMAIN HeldProcesses |->
                             IF HeldArr[i] = p
                             THEN [HeldProcesses[i] EXCEPT !.status = status]
                             ELSE HeldProcesses[i]]
                     /\ (shouldUpdate /\ last'.threw = NoError) =>
                          /\ Len(hooks') = 2
                          /\ hooks'[1].hook # hooks'[2].hook
                     /\ ~shouldUpdate => hooks' = <<>>
     /\ (last'.op = "initExecutionObject")
          => /\ Len(hooks') <= 2
             /\ \A i, j \in DOMAIN hooks' : hooks'[i].hook = hooks'[j].hook => i = j
             /\ hooks' # <<>> => (~HeldHasExecution \/ HeldStatus = "FAILED")]_vars

\* findOrCreateProcess with a status has set the status of an existing
\* process and has called the hooks
PropagationOnlyOnChangeWitness ==
  /\ Returned("findOrCreateProcess")
  /\ last.args.status = "DONE"
  /\ Len(hooks) = 2
  /\ \E i \in DOMAIN HeldProcesses :
       /\ HeldProcesses[i].type = last.args.type
       /\ HeldProcesses[i].status = "DONE"
       /\ HeldProcesses[i].message # getProcessMessage(last.args.type, "DONE")

\* C11: precondition errors: updateExecution, findOrCreateProcess and
\* removeProcess fail when the step has no Execution; updateProcess fails
\* when the step has no Execution or no Process of the named type; each
\* failing call leaves the step and the Route as they were and calls no hook.
PreconditionErrors ==
  [][/\ (/\ last'.op \in {"updateExecution", "findOrCreateProcess", "removeProcess",
                          "updateProcess"}
         /\ ~HeldHasExecution)
          => /\ last'.threw =
                  (CASE last'.op = "updateExecution" -> "Can't update empty execution."
                     [] last'.op = "updateProcess" -> "Can't update an empty step execution."
                     [] OTHER -> "Execution hasn't been initialized.")
             /\ hooks' = <<>>
             /\ UNCHANGED <<stepExec, execs, arrays, procs>>
     /\ (/\ last'.op = "updateProcess"
         /\ HeldHasExecution
         /\ \A i \in DOMAIN HeldProcesses : HeldProcesses[i].type # last'.args.type)
          => /\ last'.threw = "Can't find a process for the given type."
             /\ hooks' = <<>>
             /\ UNCHANGED <<stepExec, execs, arrays, procs>>]_vars

\* updateProcess has failed on a step of the route, with updates enabled, whose
\* list holds a process of another type
PreconditionErrorsWitness ==
  /\ last.op = "updateProcess"
  /\ last.threw = "Can't find a process for the given type."
  /\ held = "r1"
  /\ shouldUpdate
  /\ Len(HeldArr) = 1

\* ------------------------------------------------------------------------
\* Properties of executeStep
\* ------------------------------------------------------------------------

\* the positions of a process list that hold a process of a type
OfType(processes, type) == {i \in DOMAIN processes : processes[i].type = type}

\* the process of a type in a process list that holds one
TheProcess(processes, type) == processes[CHOOSE i \in OfType(processes, type) : TRUE]

\* a process list holds a process of the type, FAILED with the error code
FailedWith(processes, type, code) ==
  /\ OfType(processes, type) # {}
  /\ TheProcess(processes, type).status = "FAILED"
  /\ Len(TheProcess(processes, type).error) = 2
  /\ TheProcess(processes, type).error[1] = code

\* C12: account mismatch: when checkClient finds that the wallet's account is
\* not step.action.fromAddress, at any of its three call sites, the process
\* passed to it (the TRANSACTION process, found or created, when none is
\* passed) is FAILED with error code WalletChangedDuringExecution, the
\* Execution status is FAILED, executeStep raises that error and no
\* submission is made in the invocation.
AccountMismatch ==
  [][/\ (run.local.pc = "checkClient" /\ run'.local.accountAddress # FromAddress)
          => /\ FailedWith(HeldProcesses',
                           IF run.local.site = "initial" THEN "TRANSACTION"
                           ELSE run.local.process,
                           "WalletChangedDuringExecution")
             /\ HeldStatus' = "FAILED"
             /\ run'.local.submitted = <<>> /\ run'.local.signed = <<>>
             /\ IF run.local.site = "initial"
                THEN /\ run'.local.outcome = "threw"
                     /\ run'.local.raised.code = "WalletChangedDuringExecution"
                ELSE /\ run'.local.pc = "catch"
                     /\ run'.local.e.code = "WalletChangedDuringExecution"
     /\ (run.local.pc = "catch" /\ run.local.e.code = "WalletChangedDuringExecution")
          => /\ FailedWith(HeldProcesses', run.local.process, "WalletChangedDuringExecution")
             /\ HeldStatus' = "FAILED"
             /\ run'.local.submitted = <<>> /\ run'.local.signed = <<>>
             /\ run'.local.outcome = "threw"
             /\ run'.local.raised.code = "WalletChangedDuringExecution"]_vars

\* executeStep has raised the error of a mismatch found at the check before
\* the submission
AccountMismatchWitness ==
  /\ run.local.outcome = "threw"
  /\ run.local.site = "submission"
  /\ run.local.accountAddress # FromAddress
  /\ run.local.raised.code = "WalletChangedDuringExecution"
  /\ FailedWith(HeldProcesses, "CROSS_CHAIN", "WalletChangedDuringExecution")

\* the submission paths on which an invocation has made a submission call
PathsUsed(local) ==
  {path \in {"atomic batch", "permit-signed", "plain"} :
     \E i \in DOMAIN local.submitted :
       CASE path = "atomic batch" -> local.submitted[i] = "sendCalls"
         [] path = "permit-signed" -> local.submitted[i] # "sendCalls" /\ local.signed # <<>>
         [] OTHER -> local.submitted[i] = "sendTransaction" /\ local.signed = <<>>}

\* the submission path as a function of the inputs
PathOfInputs(inputs, atomicBatchSupported) ==
  IF atomicBatchSupported THEN "atomic batch"
  ELSE IF \/ inputs.permit2 /\ inputs.permit2Proxy
          \/ inputs.permit2Proxy /\ inputs.nativePermit /\ ~inputs.isPermitStep
       THEN "permit-signed"
       ELSE "plain"

\* the invocation in flight has submitted and is past the submission
PastSubmission ==
  /\ run.local.site = "submission"
  /\ run.local.pc \in {"awaitReceipt", "receipt", "terminalUpdate", "receivingChain",
                        "waitForDestinationChainTransaction"}

\* C13: submission-path exclusivity: an invocation of executeStep that reaches
\* the submission makes exactly one submission call, on exactly one of the
\* paths atomic batch, permit-signed and plain, and the path is a function of
\* atomicBatchSupported, isPermitStep, the permit2 and permit2Proxy flags of
\* the chain and the support of native permits.
SubmissionPathExclusivity ==
  /\ Len(run.local.submitted) <= 1
  /\ Len(run.local.signed) <= 1
  /\ PastSubmission => Len(run.local.submitted) = 1
  /\ run.local.submitted # <<>> =>
       PathsUsed(run.local) = {PathOfInputs(run.inputs, run.local.atomicBatchSupported)}

\* a permit step has been signed and submitted to the relayer
SubmissionPathExclusivityWitness ==
  /\ PastSubmission
  /\ run.inputs.isPermitStep
  /\ run.local.signed = <<"signPermitMessage">>
  /\ run.local.submitted = <<"relayTransaction">>

\* C14, as claimed: watcher matches submission path: the batch watcher is
\* awaited if and only if the handle is the batch id of sendCalls, the relayed
\* watcher if and only if the handle is a task id of relayTransaction, and
\* the standard watcher if and only if the handle is the hash of a
\* transaction sent with sendTransaction.
WatcherMatchesSubmission ==
  run.local.watcher # Undefined =>
    /\ run.local.watcher = "waitForBatchTransactionReceipt"
          <=> run.local.txHash = BatchId
    /\ run.local.watcher = "waitForRelayedTransactionReceipt"
          <=> run.local.txHash = TaskId
    /\ run.local.watcher = "waitForTransactionReceipt"
          <=> run.local.txHash \in {TransactionHash, ReplacementHash}

\* the statuses of a process list, by type
StatusByType(processes) ==
  {<<processes[i].type, processes[i].status>> : i \in DOMAIN processes}

SwitchNotCompletedReturns ==
  [][(run.local.pc = "checkClient" /\ run'.local.updatedClient = Undefined)
       => /\ run'.local.outcome = "returned"
          /\ run'.local.raised = NoException
          /\ HeldStatus' = HeldStatus
          /\ StatusByType(HeldProcesses') = StatusByType(HeldProcesses)]_vars

\* C16, amended: when switchChain returns no client and the wallet reports
\* the account step.action.fromAddress, executeStep returns the step without
\* raising and with the Execution status and the process statuses it had;
\* when the wallet reports another account, the process and the Execution
\* are marked FAILED and the error WalletChangedDuringExecution is raised.
SwitchNotCompletedReturnsForSameAccount ==
  [][(run.local.pc = "checkClient" /\ run'.local.updatedClient = Undefined)
       => IF run'.local.accountAddress = FromAddress
          THEN /\ run'.local.outcome = "returned"
               /\ run'.local.raised = NoException
               /\ run'.local.submitted = <<>>
               /\ HeldStatus' = HeldStatus
               /\ StatusByType(HeldProcesses') = StatusByType(HeldProcesses)
          ELSE /\ HeldStatus' = "FAILED"
               /\ FailedWith(HeldProcesses',
                             IF run.local.site = "initial" THEN "TRANSACTION"
                             ELSE run.local.process,
                             "WalletChangedDuringExecution")
               /\ \/ /\ run'.local.outcome = "threw"
                     /\ run'.local.raised.code = "WalletChangedDuringExecution"
                  \/ /\ run'.local.pc = "catch"
                     /\ run'.local.e.code = "WalletChangedDuringExecution"]_vars

\* executeStep has returned from the check on resume of a persisted hash:
\* no client, same account
SwitchNotCompletedWitness ==
  /\ run.local.outcome = "returned"
  /\ run.local.site = "resume"
  /\ run.local.updatedClient = Undefined
  /\ run.local.accountAddress = FromAddress
  /\ HeldStatus = "PENDING"

\* C17, as claimed: failures are never swallowed: an invocation that ends
\* with an exception raised from the allowance check onward (allowance check,
\* balance check, quote, step comparison, missing transaction data, signing,
\* submission, receipt wait) leaves the swap or transfer process FAILED with
\* the code and the message of the classified error, leaves the Execution
\* FAILED and raises the classified error.
FailuresNeverSwallowed ==
  [][(/\ run.local.pc \in {"checkAllowance", "catch"}
      /\ run'.local.outcome = "threw")
       => LET type == currentProcessType(run.inputs)
              error == run'.local.raised
          IN /\ error.name = "TransactionError"
             /\ FailedWith(HeldProcesses', type, error.code)
             /\ TheProcess(HeldProcesses', type).error = <<error.code, error.message>>
             /\ HeldStatus' = "FAILED"]_vars

\* the first invocation on a step for a swap of a native token on one chain,
\* in which nothing has failed
FreshNativeSwap(r) ==
  /\ r.invocations = 1
  /\ ~r.inputs.isBridgeExecution
  /\ r.inputs.nativeToken
  /\ r.local.e = NoException
  /\ r.local.outcome # "threw"

\* C18, as claimed: fresh same-chain swap with a native source token and no
\* failure: the only process is a SWAP process, no allowance check is made,
\* one submission is made, the SWAP process is DONE when executeStep returns
\* after the receipt, and the Execution status is PENDING and then DONE, with
\* no other value.
NativeSwapPendingThenDone ==
  [][FreshNativeSwap(run')
       => /\ HeldStatus' \in {"PENDING", "DONE"}
          /\ HeldStatus = "DONE" => HeldStatus' = "DONE"
          /\ \A ts \in StatusByType(HeldProcesses') : ts[1] = "SWAP"
          /\ run'.local.allowanceChecks = 0
          /\ (run'.local.outcome = "returned" /\ run'.local.submitted # <<>>)
               => /\ Len(run'.local.submitted) = 1
                  /\ StatusByType(HeldProcesses') = {<<"SWAP", "DONE">>}
                  /\ HeldStatus' = "DONE"]_vars

\* C18, amended: fresh same-chain swap with a native source token and no
\* failure: the only process is a SWAP process, no allowance check is made,
\* one submission is made, the SWAP process is DONE when executeStep returns
\* after the receipt, and the Execution status is PENDING, then
\* ACTION_REQUIRED from the request for the wallet's action until the
\* submission, then PENDING again and then DONE, with no other value.
NativeSwapStatuses ==
  [][FreshNativeSwap(run')
       => /\ HeldStatus' \in {"PENDING", "ACTION_REQUIRED", "DONE"}
          /\ HeldStatus = "DONE" => HeldStatus' = "DONE"
          /\ HeldStatus' = "ACTION_REQUIRED"
               => run'.local.pc \in {"submit", "idle"} /\ run'.local.submitted = <<>>
          /\ run'.local.pc = "submit" => HeldStatus' = "ACTION_REQUIRED"
          /\ run'.local.txHash # Undefined => HeldStatus' \in {"PENDING", "DONE"}
          /\ HeldStatus' = "DONE"
               => run'.local.outcome = "returned" /\ run'.local.txHash # Undefined
          /\ \A ts \in StatusByType(HeldProcesses') : ts[1] = "SWAP"
          /\ run'.local.allowanceChecks = 0
          /\ (run'.local.outcome = "returned" /\ run'.local.submitted # <<>>)
               => /\ Len(run'.local.submitted) = 1
                  /\ StatusByType(HeldProcesses') = {<<"SWAP", "DONE">>}
                  /\ HeldStatus' = "DONE"]_vars

\* the first invocation on a native swap has submitted and has returned
NativeSwapStatusesWitness ==
  /\ FreshNativeSwap(run)
  /\ run.local.outcome = "returned"
  /\ run.local.submitted = <<"sendTransaction">>
  /\ run.local.watcher = "waitForTransactionReceipt"
  /\ HeldStatus = "DONE"
  /\ StatusByType(HeldProcesses) = {<<"SWAP", "DONE">>}

\* a process of the type is in the list after the step and not before
Created(type) ==
  OfType(HeldProcesses, type) = {} /\ OfType(HeldProcesses', type) # {}

\* the status of the process of a type, Undefined when there is none
StatusOf(processes, type) ==
  IF OfType(processes, type) = {} THEN Undefined ELSE TheProcess(processes, type).status

\* C19, as claimed: bridging order: in a bridging step with a non-native
\* token, the allowance check has run when the CROSS_CHAIN process is
\* created; the RECEIVING_CHAIN process is created with status PENDING and
\* only when the CROSS_CHAIN process is DONE; and RECEIVING_CHAIN is set to
\* DONE by the destination-chain watcher only.
BridgingOrder ==
  [][(run.inputs.isBridgeExecution /\ ~run.inputs.nativeToken)
       => /\ Created("CROSS_CHAIN") => run.local.allowanceChecks >= 1
          /\ Created("RECEIVING_CHAIN")
               => /\ StatusOf(HeldProcesses', "RECEIVING_CHAIN") = "PENDING"
                  /\ StatusOf(HeldProcesses, "CROSS_CHAIN") = "DONE"
                  /\ StatusOf(HeldProcesses', "CROSS_CHAIN") = "DONE"
          /\ (/\ StatusOf(HeldProcesses', "RECEIVING_CHAIN") = "DONE"
              /\ StatusOf(HeldProcesses, "RECEIVING_CHAIN") # "DONE")
               => run.local.pc = "waitForDestinationChainTransaction"]_vars

\* C19, amended: in a bridging step with a non-native token, the allowance
\* check has run when the CROSS_CHAIN process is created unless the native
\* permit of the token is supported (permit2Proxy on the chain, no atomic
\* batch, no permit step), in which case no allowance check is made; the
\* RECEIVING_CHAIN process is created with status PENDING and only when the
\* CROSS_CHAIN process is DONE; and RECEIVING_CHAIN is set to DONE by the
\* destination-chain watcher only.
BridgingOrderUnlessNativePermit ==
  [][(run.inputs.isBridgeExecution /\ ~run.inputs.nativeToken)
       => /\ Created("CROSS_CHAIN")
               => IF /\ run.inputs.permit2Proxy /\ run.inputs.nativePermit
                     /\ ~run.inputs.isPermitStep /\ ~run.local.atomicBatchSupported
                  THEN run.local.allowanceChecks = 0
                  ELSE run.local.allowanceChecks = 1
          /\ run'.local.allowanceChecks > run.local.allowanceChecks
               => run.local.pc = "checkAllowance" /\ run.local.process = Undefined
          /\ Created("RECEIVING_CHAIN")
               => /\ StatusOf(HeldProcesses', "RECEIVING_CHAIN") = "PENDING"
                  /\ StatusOf(HeldProcesses, "CROSS_CHAIN") = "DONE"
                  /\ StatusOf(HeldProcesses', "CROSS_CHAIN") = "DONE"
          /\ (/\ StatusOf(HeldProcesses', "RECEIVING_CHAIN") = "DONE"
              /\ StatusOf(HeldProcesses, "RECEIVING_CHAIN") # "DONE")
               => run.local.pc = "waitForDestinationChainTransaction"]_vars

\* a transfer of a token with an allowance check has been received on the
\* destination chain
BridgingOrderWitness ==
  /\ run.inputs.isBridgeExecution /\ ~run.inputs.nativeToken
  /\ run.local.allowanceChecks = 1
  /\ run.local.calls = <<"approve", "transfer">>
  /\ run.local.outcome = "returned"
  /\ StatusByType(HeldProcesses) = {<<"CROSS_CHAIN", "DONE">>, <<"RECEIVING_CHAIN", "DONE">>}

\* the standard watcher is awaited by the invocation r
StandardWatcher(r) == r.local.watcher = "waitForTransactionReceipt"

\* C20: transaction replaced during wait: when the standard watcher reports a
\* replacement, through onReplaced or through a receipt with another hash
\* than the awaited one, the swap or transfer process has the new hash as
\* txHash, the link of the new hash as txLink and status PENDING, in a state
\* in which it is not DONE and was not DONE before; when it is set to DONE
\* afterwards it has the new hash.
ReplacementPersistedBeforeDone ==
  [][LET type == currentProcessType(run.inputs)
     IN /\ (/\ StandardWatcher(run')
             /\ run.local.replacedBy = Undefined
             /\ run'.local.replacedBy # Undefined)
              => /\ OfType(HeldProcesses', type) # {}
                 /\ TheProcess(HeldProcesses', type).txHash = run'.local.replacedBy
                 /\ TheProcess(HeldProcesses', type).txLink
                      = <<"blockExplorerUrl", "tx/", run'.local.replacedBy>>
                 /\ TheProcess(HeldProcesses', type).status = "PENDING"
                 /\ StatusOf(HeldProcesses, type) # "DONE"
                 /\ run'.local.pc \in {"receipt", "terminalUpdate"}
        /\ (/\ StandardWatcher(run)
             /\ run.local.replacedBy # Undefined
             /\ StatusOf(HeldProcesses, type) # "DONE"
             /\ StatusOf(HeldProcesses', type) = "DONE")
              => /\ TheProcess(HeldProcesses, type).txHash = run.local.replacedBy
                 /\ TheProcess(HeldProcesses, type).status = "PENDING"
                 /\ TheProcess(HeldProcesses', type).txHash = run.local.replacedBy
                 /\ TheProcess(HeldProcesses', type).txLink
                      = <<"blockExplorerUrl", "tx/", run.local.replacedBy>>]_vars

\* a transfer whose transaction was replaced during the wait is DONE with
\* the hash of the replacing transaction
ReplacementPersistedWitness ==
  /\ StandardWatcher(run)
  /\ run.local.txHash = TransactionHash
  /\ run.local.replacedBy = ReplacementHash
  /\ StatusOf(HeldProcesses, "CROSS_CHAIN") = "DONE"
  /\ TheProcess(HeldProcesses, "CROSS_CHAIN").txHash = ReplacementHash

\* C21, as claimed: permit step skips allowance: in an invocation of
\* executeStep on a relayer-assisted permit step checkAllowance is never
\* called, whatever the source token and the permit flags of the chain are.
PermitStepSkipsAllowance ==
  run.inputs.isPermitStep =>
    /\ run.local.pc # "checkAllowance"
    /\ run.local.allowanceChecks = 0

\* the invocation found the step waiting for the transaction on the
\* destination chain
StartedWaiting(local) ==
  local.destinationChainProcess = "WAIT_DESTINATION_TRANSACTION"

\* the positions of executeStep at which the source chain is validated again
\* or a transaction is prepared and submitted
SourceChainWork ==
  {"checkClient", "checkAllowance", "started", "prepare", "requireAction",
   "signPermitMessage", "submit", "awaitReceipt", "receipt", "terminalUpdate",
   "catch"}

\* C22, as claimed: destination-wait short-circuit: an invocation of
\* executeStep on a step that has a RECEIVING_CHAIN process with substatus
\* WAIT_DESTINATION_TRANSACTION performs no chain switch and no account
\* check, makes no allowance check and no submission, and goes on to the
\* wait for the transaction on the destination chain.
DestinationWaitShortCircuit ==
  StartedWaiting(run.local) =>
    /\ run.local.pc \notin SourceChainWork
    /\ run.local.updatedClient = Undefined
    /\ run.local.accountAddress = Undefined
    /\ run.local.allowanceChecks = 0
    /\ run.local.submitted = <<>>

\* the step is a submission call
SubmissionCall == Len(run'.local.submitted) = Len(run.local.submitted) + 1

\* C25, as claimed: no re-submission on resume: once a submission call
\* (sendTransaction, sendCalls or relayTransaction) has returned for the swap
\* or the transfer of a step, no later invocation of executeStep on the step
\* makes a submission call for it; an invocation that awaits a receipt awaits
\* it for the handle returned or for the transaction that has replaced it.
NoResubmission ==
  [][/\ SubmissionCall => run.handles = <<>>
     /\ run'.local.pc = "receipt" =>
          run'.local.txHash \in Range(run'.handles) \cup {ReplacementHash}]_vars

\* ------------------------------------------------------------------------
\* Properties of the permit message builder
\* ------------------------------------------------------------------------

\* the step is a call of the builder
BuilderCall == builder'.calls = builder.calls + 1

ValidationErrors ==
  {"SIG_DEADLINE_OUT_OF_RANGE", "NONCE_OUT_OF_RANGE", "AMOUNT_OUT_OF_RANGE"}

\* the bounds that the permit exceeds, by the name of their errors
Exceeded(permit) ==
  {name \in ValidationErrors :
     \/ name = "SIG_DEADLINE_OUT_OF_RANGE" /\ permit.deadline > MaxSigDeadline
     \/ name = "NONCE_OUT_OF_RANGE" /\ permit.nonce > MaxUnorderedNonce
     \/ /\ name = "AMOUNT_OUT_OF_RANGE"
        /\ \E i \in DOMAIN permit.permitted.elems :
             permit.permitted.elems[i].amount > MaxSignatureTransferAmount}

\* C23: permit range validation: getPermitTransferData,
\* getPermitBatchTransferData, getPermitData and hash throw a validation
\* error named after a bound and return nothing if and only if the deadline
\* exceeds MaxSigDeadline, the nonce exceeds MaxUnorderedNonce or one of the
\* permitted amounts exceeds MaxSignatureTransferAmount; a value equal to its
\* maximum is accepted.
PermitRangeValidation ==
  [][BuilderCall =>
       LET call == builder'.last
       IN IF Exceeded(builder.permit) = {}
          THEN call.threw = NoError /\ Len(call.value) = 1
          ELSE call.threw \in Exceeded(builder.permit) /\ call.value = <<>>]_vars

\* a batch whose first amount is the maximum and whose second amount exceeds
\* it has been refused, its nonce being the maximum
PermitRangeValidationWitness ==
  /\ builder.last.op = "getPermitBatchTransferData"
  /\ builder.last.threw = "AMOUNT_OUT_OF_RANGE"
  /\ Len(builder.permit.permitted.elems) = 2
  /\ builder.permit.permitted.elems[1].amount = MaxSignatureTransferAmount
  /\ builder.permit.nonce = MaxUnorderedNonce
  /\ builder.calls = 1

MessageTypes ==
  {"PermitTransferFrom", "PermitWitnessTransferFrom", "PermitBatchTransferFrom",
   "PermitBatchWitnessTransferFrom"}

\* the message type by (single or batch, witness absent or given)
Selected(batch, witnessed) ==
  CASE ~batch /\ ~witnessed -> "PermitTransferFrom"
    [] ~batch /\ witnessed -> "PermitWitnessTransferFrom"
    [] batch /\ ~witnessed -> "PermitBatchTransferFrom"
    [] OTHER -> "PermitBatchWitnessTransferFrom"

\* the members of a type that are named witness
WitnessMembers(members) == {i \in DOMAIN members : members[i][1] = "witness"}

\* C24: primary-type selection: for a permit in range, the primary type that
\* hash uses and the message type of the type set built are
\* PermitTransferFrom, PermitWitnessTransferFrom, PermitBatchTransferFrom or
\* PermitBatchWitnessTransferFrom according to the permit being single or a
\* batch and to a witness being absent or given, and to nothing else; the
\* message type has a witness member exactly when a witness is given.
PrimaryTypeSelection ==
  [][BuilderCall /\ Exceeded(builder.permit) = {} =>
       LET call == builder'.last
           witnessed == call.witness # NoWitness
           selected == Selected(builder.permit.permitted.isArray, witnessed)
       IN /\ call.threw = NoError
          /\ IF call.op = "hash"
             THEN /\ call.value[1].primaryType = selected
                  /\ (WitnessMembers(call.value[1].members) # {}) <=> witnessed
             ELSE /\ DOMAIN call.value[1].types \cap MessageTypes = {selected}
                  /\ (WitnessMembers(call.value[1].types[selected]) # {}) <=> witnessed]_vars

\* hash has used PermitBatchTransferFrom, called without a witness for a
\* batch permit in range on which an earlier call with a witness was made
PrimaryTypeSelectionWitness ==
  /\ builder.last.op = "hash"
  /\ builder.last.threw = NoError
  /\ builder.permit.permitted.isArray
  /\ builder.calls = 2
  /\ builder.permit.witness # Undefined
  /\ builder.last.witness = NoWitness
  /\ builder.last.value[1].primaryType = "PermitBatchTransferFrom"

\* C26, as claimed: purity of the permit message builder:
\* getPermitTransferData, getPermitBatchTransferData, getPermitData and hash
\* leave their permit argument unchanged, with or without a witness; the
\* values built without a witness have no witness property, whatever was
\* built for the same permit before.
BuilderPurity ==
  [][BuilderCall =>
       /\ builder'.permit = builder.permit
       /\ /\ builder'.last.threw = NoError
          /\ builder'.last.witness = NoWitness
          /\ builder'.last.op # "hash"
          => builder'.last.value[1].values.witness = Undefined]_vars

\* ------------------------------------------------------------------------
\* Properties of the StatusManager on a resumed route
\* ------------------------------------------------------------------------

\* the steps of the route whose id is not that of step
OtherSteps(step) == {s \in Range(routeSteps) : stepId[s] # stepId[step]}

\* the step is a mutation call
MutationCall == nops' = nops + 1 /\ last'.op \in MutationOps

StepNotFound == "Couldn't find a step to update."

\* C27, as claimed: step isolation: a mutation operation on a step leaves the
\* Execution and the processes of every route step with another id
\* unchanged; with updates enabled, it throws "Couldn't find a step to
\* update." and calls no hook when no route step has the id of the step.
StepIsolation ==
  [][MutationCall =>
       /\ \A s \in OtherSteps(held) : StepView(Heap', s) = StepView(Heap, s)
       /\ (shouldUpdate /\ OtherSteps(held) = Range(routeSteps)) =>
            /\ last'.threw = StepNotFound
            /\ hooks' = <<>>]_vars

\* C27, amended: a mutation operation on a step leaves the Execution and the
\* processes of every route step with another id unchanged; when no route
\* step has the id of the step, no hook is called and, with updates enabled,
\* an operation whose precondition fails throws the error of the
\* precondition, an operation that changes the Execution or a process of the
\* step throws "Couldn't find a step to update.", and an operation that
\* returns has changed nothing.
StepIsolationOnPropagation ==
  [][MutationCall =>
       /\ \A s \in OtherSteps(held) : StepView(Heap', s) = StepView(Heap, s)
       /\ OtherSteps(held) = Range(routeSteps) =>
            LET unpropagated == Apply(Heap, last', FALSE)
            IN /\ hooks' = <<>>
               /\ shouldUpdate /\ unpropagated.threw # NoError =>
                    last'.threw = unpropagated.threw
               /\ (/\ shouldUpdate
                   /\ unpropagated.threw = NoError
                   /\ StepView(unpropagated.h, held) # StepView(Heap, held)) =>
                    last'.threw = StepNotFound
               /\ shouldUpdate /\ last'.threw = NoError =>
                    StepView(Heap', held) = StepView(Heap, held)]_vars

\* updateProcess on the second step of the route has returned and has called
\* the hooks; the first step has its Execution that is DONE and its process
StepIsolationWitness ==
  /\ held = "r2"
  /\ Returned("updateProcess")
  /\ last.args.status = "FAILED"
  /\ Len(hooks) = 2
  /\ StepView(Heap, "r1").execution[1].status = "DONE"
  /\ Len(StepView(Heap, "r1").execution[1].process) = 1

\* ------------------------------------------------------------------------
\* Properties of setInteraction
\* ------------------------------------------------------------------------

\* the value that a call of setInteraction gives to a key: the one of its
\* argument, or true when the argument leaves the key out
Given(settings, key) == IF key \in DOMAIN settings THEN settings[key] ELSE TRUE

\* C28: interaction settings are not sticky: after any sequence of
\* setInteraction calls, allowUserInteraction, allowExecution and the flag of
\* the StatusManager for updates are those of the last call alone: each has
\* the value given in that call, or true when the call leaves it out; a call
\* without arguments sets all three to true.
InteractionNotSticky ==
  [][IF nops' = nops + 1 /\ last'.op = "setInteraction"
     THEN /\ allowUserInteraction' = Given(last'.args.value, "allowInteraction")
          /\ allowExecution' = Given(last'.args.value, "allowExecution")
          /\ shouldUpdate' = Given(last'.args.value, "allowUpdates")
     ELSE UNCHANGED <<allowUserInteraction, allowExecution, shouldUpdate>>]_vars

\* a second call of setInteraction, with allowExecution alone, has left
\* allowExecution false and the two other flags true
InteractionNotStickyWitness ==
  /\ last.op = "setInteraction"
  /\ nops = 2
  /\ DOMAIN last.args.value = {"allowExecution"}
  /\ ~allowExecution
  /\ allowUserInteraction
  /\ shouldUpdate

====
